---- MODULE Spec2Model ----
(***************************************************************************)
(* Fusion v11.2 adaptive pipeline: the AgentChain step loop                *)
(* (ChatGPT_Upload_v11.2/agent_chain.py) and the MemoryRegistry learning   *)
(* ledger (ChatGPT_Upload_v11.2/memory_registry.py).                       *)
(*                                                                         *)
(* Scores are kept in tenths (7 stands for 0.7).  The ledger's running     *)
(* averages are Python floats in the source; here they are exact rationals *)
(* <<numerator, denominator>> in lowest terms, computed by the same        *)
(* formulas, so equalities below are equalities "up to rounding" of the    *)
(* floats.                                                                 *)
(***************************************************************************)
EXTENDS Integers, Sequences, FiniteSets, TLC

VARIABLES
    agent_patterns,   \* MemoryRegistry.memory["agent_patterns"]
    chain_history,    \* MemoryRegistry.memory["chain_history"]
    storage,          \* the JSON file behind the registry, as last saved
    ret,              \* what the latest MemoryRegistry call returned
    usage_log,        \* history: per (agent, pattern), what was recorded
    config,           \* AgentChain.config
    adaptive,         \* the adaptive argument of the running execute
    pc,               \* position of the AgentChain object: "idle" | "running"
                      \* | "failed" (execute was left by an exception)
    step_idx,         \* 1-based index of the next step of the loop
    chain_output,     \* AgentChain.chain_output
    metrics,          \* AgentChain.metrics
    reasoning_trail,  \* AgentChain.reasoning_trail
    result,           \* what the latest execute returned
    last_step,        \* history: the latest loop iteration of this execute
    run_input,        \* history: the input_text of the latest execute
    fault,            \* history: the exception that ended the latest execute
    threads,          \* concurrent callers of record_pattern_use
    flow_call,        \* the locals and the outcome of a run_agent_chain call
    runs,             \* concurrent execute calls on one AgentChain object
    trail_heap,       \* the list objects self.reasoning_trail has referred to
    summary,          \* a metrics history and what the aggregation made of it
    monitor,          \* a FusionV11Monitor object and its latest report
    deployer,         \* a batch_deploy call and the process working directory
    recorder          \* a caller of record_chain_execution and its call count

vars == <<agent_patterns, chain_history, storage, ret, usage_log, config,
          adaptive, pc, step_idx, chain_output, metrics, reasoning_trail,
          result, last_step, run_input, fault, threads,
          flow_call, runs, trail_heap, summary, monitor, deployer, recorder>>

\* The variables of the aggregation, the monitor, the deployer and the
\* history recorder.
tool_vars == <<summary, monitor, deployer, recorder>>

\* The variables of the pipeline executors.
chain_vars == <<config, adaptive, pc, step_idx, chain_output, metrics,
                reasoning_trail, result, last_step, run_input, fault,
                flow_call, runs, trail_heap, tool_vars>>

---------------------------------------------------------------------------
(* Bounds and input sets *)

\* Cap on the uses the ledger holds: no direct call and no pipeline run is
\* started that would take it beyond.
MaxUses == 3

\* Longest pipeline configuration.
MaxSteps == 2

None == "None"

Agents == {"analyst", "writer"}

Patterns == {"StepwiseInsightSynthesis", "RoleDirective",
             "PatternCritiqueThenRewrite", "Custom"}

MetricNames == {"overall", "clarity_score"}

\* Evaluator scores, in tenths: below, exactly at, and above 0.7.
Scores == {4, 7, 9}

\* Scores of the auxiliary metric: below and above 0.7.
AuxScores == {4, 9}

\* What the evaluator returns inside a chain: every metric is present.
EvalVectors ==
    {m \in [MetricNames -> Scores] : m["clarity_score"] \in AuxScores}

\* The vectors the evaluator returns inside a chain: both metrics low; high
\* overall with a low auxiliary score; overall exactly 0.7; and a vector
\* that reports a high overall score alone.
ChainVectors ==
    {m \in EvalVectors :
        <<m["overall"], m["clarity_score"]>> \in {<<4, 4>>, <<9, 4>>, <<7, 9>>}}
    \cup {[overall |-> 9]}

\* What a direct caller may hand to record_pattern_use: "overall" is always
\* there, the auxiliary metric may be missing.
LedgerVectors == EvalVectors \cup [{"overall"} -> Scores]

\* Keys used by direct callers of the registry.
LedgerPatterns == {"StepwiseInsightSynthesis", "RoleDirective"}

\* The steps pipelines are built from: a step with the default threshold
\* whose pattern has a fallback, the same with its own threshold of 0.9, a
\* step whose pattern has no fallback, and a step of the other agent.
StepSpecs ==
    { [agent |-> "analyst", pattern |-> "StepwiseInsightSynthesis"],
      [agent |-> "analyst", pattern |-> "StepwiseInsightSynthesis",
       metrics_threshold |-> 9],
      [agent |-> "analyst", pattern |-> "Custom"],
      [agent |-> "writer", pattern |-> "PatternCritiqueThenRewrite"] }

RECURSIVE SeqsUpTo(_, _)
SeqsUpTo(S, n) ==
    IF n = 0 THEN {<<>>}
    ELSE LET shorter == SeqsUpTo(S, n - 1)
         IN  shorter \cup {Append(q, x) : q \in shorter, x \in S}

\* Pipeline configurations, the empty one (AgentChain()) included.
Configs == SeqsUpTo(StepSpecs, MaxSteps)

\* Pipeline runs that share the registry (agent_chain.py:10 imports the one
\* global instance of memory_registry.py:145).
Threads == {"run1", "run2"}

\* What concurrent callers record: one agent, either pattern, overall only.
ConcurrentAgents == {"analyst"}
ConcurrentVectors == [{"overall"} -> Scores]

\* Initial input texts; a text is a sequence of tokens.
Inputs == {<<"request">>}

---------------------------------------------------------------------------
(* Exact arithmetic standing in for Python floats *)

RECURSIVE Gcd(_, _)
Gcd(a, b) == IF b = 0 THEN a ELSE Gcd(b, a % b)

Abs(x) == IF x < 0 THEN -x ELSE x

Norm(n, d) ==
    LET g == Gcd(Abs(n), Abs(d))
    IN  IF n = 0 THEN <<0, 1>> ELSE <<n \div g, d \div g>>

RatInt(i) == <<i, 1>>
RatAdd(x, y) == Norm(x[1] * y[2] + y[1] * x[2], x[2] * y[2])
RatMul(x, y) == Norm(x[1] * y[1], x[2] * y[2])
RatDivInt(x, k) == Norm(x[1], x[2] * k)
RatLess(x, y) == x[1] * y[2] < y[1] * x[2]
RatLeq(x, y) == x[1] * y[2] <= y[1] * x[2]

---------------------------------------------------------------------------
(* MemoryRegistry *)

\* The success threshold record_pattern_use hard-codes (0.7).
SuccessThreshold == 7

\* memory_registry.py:41-45
NewEntry(pattern) ==
    [pattern |-> pattern, uses |-> 0, success_rate |-> <<0, 1>>,
     avg_metrics |-> <<>>]

\* Position of pattern in an agent's dict (insertion order), 0 when absent.
IndexOf(entries, pattern) ==
    IF \E i \in 1..Len(entries) : entries[i].pattern = pattern
    THEN CHOOSE i \in 1..Len(entries) : entries[i].pattern = pattern
    ELSE 0

HasEntry(ap, agent, pattern) ==
    /\ agent \in DOMAIN ap
    /\ IndexOf(ap[agent], pattern) # 0

Entry(ap, agent, pattern) == ap[agent][IndexOf(ap[agent], pattern)]

\* A faulty variant of EnsureEntry: line 37's membership test left out, so
\* the agent's dict is replaced on every call.
EnsureEntry_reset(ap, agent, pattern) ==
    LET ap1 == (agent :> <<>>) @@ ap
    IN  [ap1 EXCEPT ![agent] = Append(@, NewEntry(pattern))]

\* memory_registry.py:37-45: create the agent's dict and the entry if absent.
EnsureEntry(ap, agent, pattern) ==
    LET ap1 == IF agent \in DOMAIN ap THEN ap ELSE ap @@ (agent :> <<>>)
    IN  IF IndexOf(ap1[agent], pattern) # 0
        THEN ap1
        ELSE [ap1 EXCEPT ![agent] = Append(@, NewEntry(pattern))]

\* A faulty variant of RunningAverage: the old average weighted by uses.
RunningAverage_unweighted(old_avg, uses, value) ==
    RatDivInt(RatAdd(RatMul(old_avg, RatInt(uses)), RatInt(value)), uses)

\* memory_registry.py:56 with uses already incremented.
RunningAverage(old_avg, uses, value) ==
    RatDivInt(RatAdd(RatMul(old_avg, RatInt(uses - 1)), RatInt(value)), uses)

\* memory_registry.py:51-56
UpdateAvgMetrics(avg, uses, m) ==
    [k \in (DOMAIN avg) \cup (DOMAIN m) |->
        IF k \notin DOMAIN m THEN avg[k]
        ELSE IF k \notin DOMAIN avg THEN RatInt(m[k])
        ELSE RunningAverage(avg[k], uses, m[k])]

\* A faulty variant of IsSuccess: a score of exactly 0.7 does not count.
IsSuccess_strict(m) == \A k \in DOMAIN m : m[k] > SuccessThreshold

\* memory_registry.py:59
IsSuccess(m) == \A k \in DOMAIN m : m[k] >= SuccessThreshold

\* memory_registry.py:60-61 with uses already incremented.
UpdateSuccessRate(old_rate, uses, success) ==
    LET old_successes == RatMul(old_rate, RatInt(uses - 1))
    IN  RatDivInt(RatAdd(old_successes, RatInt(IF success THEN 1 ELSE 0)), uses)

\* memory_registry.py:47-61: the update of one entry.
UpdateEntry(entry, m) ==
    LET uses == entry.uses + 1
    IN  [pattern |-> entry.pattern,
         uses |-> uses,
         success_rate |-> UpdateSuccessRate(entry.success_rate, uses, IsSuccess(m)),
         avg_metrics |-> UpdateAvgMetrics(entry.avg_metrics, uses, m)]

\* memory_registry.py:35-61: agent_patterns after record_pattern_use.
record_pattern_use(ap, agent, pattern, m) ==
    LET ap1 == EnsureEntry(ap, agent, pattern)
        i == IndexOf(ap1[agent], pattern)
    IN  [ap1 EXCEPT ![agent][i] = UpdateEntry(@, m)]

\* The sort key of get_best_pattern: x precedes y in descending order.
KeyGreater(x, y) ==
    \/ RatLess(y.success_rate, x.success_rate)
    \/ /\ x.success_rate = y.success_rate
       /\ x.uses > y.uses

\* memory_registry.py:90-94: sorted(..., key, reverse=True), as a stable
\* insertion sort: e goes behind every element whose key is not smaller, so
\* entries with equal keys keep their insertion order.
\* A faulty variant of InsertDescending: an entry goes in front of the
\* entries whose key equals its own, as an unstable sort might place it.
RECURSIVE InsertDescending_unstable(_, _)
InsertDescending_unstable(sorted, e) ==
    IF sorted = <<>> THEN <<e>>
    ELSE IF ~KeyGreater(Head(sorted), e) THEN <<e>> \o sorted
    ELSE <<Head(sorted)>> \o InsertDescending_unstable(Tail(sorted), e)

RECURSIVE InsertDescending(_, _)
InsertDescending(sorted, e) ==
    IF sorted = <<>> THEN <<e>>
    ELSE IF KeyGreater(e, Head(sorted)) THEN <<e>> \o sorted
    ELSE <<Head(sorted)>> \o InsertDescending(Tail(sorted), e)

RECURSIVE SortedPatterns(_)
SortedPatterns(entries) ==
    IF entries = <<>> THEN <<>>
    ELSE InsertDescending(SortedPatterns(SubSeq(entries, 1, Len(entries) - 1)),
                          entries[Len(entries)])

\* A faulty variant of get_best_pattern: the sort without reverse=True.
get_best_pattern_ascending(ap, agent) ==
    IF agent \notin DOMAIN ap THEN None
    ELSE IF Len(ap[agent]) = 0 THEN None
    ELSE LET sorted_patterns == SortedPatterns(ap[agent])
         IN  sorted_patterns[Len(sorted_patterns)].pattern

\* memory_registry.py:80-96
get_best_pattern(ap, agent) ==
    IF agent \notin DOMAIN ap THEN None
    ELSE IF Len(ap[agent]) = 0 THEN None
    ELSE LET sorted_patterns == SortedPatterns(ap[agent])
         IN  sorted_patterns[1].pattern

\* memory_registry.py:29-33: what _save_memory writes.
Saved(ap, hist) == [agent_patterns |-> ap, chain_history |-> hist]

TotalUses(ap) ==
    LET RECURSIVE SumAgents(_)
        SumAgents(S) ==
            IF S = {} THEN 0
            ELSE LET a == CHOOSE x \in S : TRUE
                     RECURSIVE SumSeq(_)
                     SumSeq(i) == IF i = 0 THEN 0 ELSE ap[a][i].uses + SumSeq(i - 1)
                 IN  SumSeq(Len(ap[a])) + SumAgents(S \ {a})
    IN  SumAgents(DOMAIN ap)

---------------------------------------------------------------------------
(* History of recordings, kept beside the ledger for the properties *)

EmptyLog ==
    [k \in Agents \X Patterns |->
        [calls |-> 0, successes |-> 0,
         sum |-> [m \in MetricNames |-> 0],
         carried |-> [m \in MetricNames |-> 0]]]

Log(log, agent, pattern, m) ==
    [log EXCEPT ![<<agent, pattern>>] =
        [calls |-> @.calls + 1,
         successes |-> @.successes + (IF \A k \in DOMAIN m : m[k] >= 7 THEN 1 ELSE 0),
         sum |-> [k \in MetricNames |-> @.sum[k] + (IF k \in DOMAIN m THEN m[k] ELSE 0)],
         carried |-> [k \in MetricNames |-> @.carried[k] + (IF k \in DOMAIN m THEN 1 ELSE 0)]]]

---------------------------------------------------------------------------
(* Initial state: a fresh storage file (memory_registry.py:12-27) and an   *)
(* AgentChain that has not run.                                            *)

InitLedger ==
    /\ agent_patterns = <<>>
    /\ chain_history = <<>>
    /\ storage = Saved(<<>>, <<>>)
    /\ ret = [op |-> "none", agent |-> None, value |-> None]
    /\ usage_log = EmptyLog

NoStep == [tried |-> <<>>]

NoFault == [kind |-> "none"]

NoCall == [pc |-> "none"]

NoRuns == <<>>

NoHeap == [self |-> None]

NoSummary == [pc |-> "none"]

NoMonitor == [pc |-> "none"]

NoDeployer == [pc |-> "none"]

NoRecorder == [calls |-> 0]

\* The aggregation, the monitor, the deployer and the history recorder are
\* not in use.
InitTools ==
    /\ summary = NoSummary
    /\ monitor = NoMonitor
    /\ deployer = NoDeployer
    /\ recorder = NoRecorder

NoResult == [output |-> <<>>, metrics |-> <<>>, reasoning_trail |-> <<>>]

InitChainIdle ==
    /\ adaptive = TRUE
    /\ pc = "idle"
    /\ step_idx = 1
    /\ chain_output = <<>>
    /\ metrics = <<>>
    /\ reasoning_trail = <<>>
    /\ result = NoResult
    /\ last_step = NoStep
    /\ run_input = <<>>
    /\ fault = NoFault

---------------------------------------------------------------------------
(* Direct use of the registry *)

RecordPatternUse ==
    /\ TotalUses(agent_patterns) < MaxUses
    /\ \E agent \in Agents, pattern \in LedgerPatterns, m \in LedgerVectors :
        /\ agent_patterns' = record_pattern_use(agent_patterns, agent, pattern, m)
        /\ usage_log' = Log(usage_log, agent, pattern, m)
        /\ ret' = [op |-> "record_pattern_use", agent |-> None, value |-> None]
    /\ storage' = Saved(agent_patterns', chain_history)
    /\ UNCHANGED <<chain_history, chain_vars, threads>>

GetBestPattern ==
    /\ \E agent \in Agents :
        ret' = [op |-> "get_best_pattern", agent |-> agent,
                value |-> get_best_pattern(agent_patterns, agent)]
    /\ UNCHANGED <<agent_patterns, chain_history, storage, usage_log,
                   chain_vars, threads>>

InitLedgerSpec ==
    /\ InitLedger
    /\ InitChainIdle
    /\ config = <<>>
    /\ threads = <<>>
    /\ flow_call = NoCall
    /\ runs = NoRuns
    /\ trail_heap = NoHeap
    /\ InitTools

NextLedger == RecordPatternUse \/ GetBestPattern

SpecLedger == InitLedgerSpec /\ [][NextLedger]_vars

---------------------------------------------------------------------------
(* AgentChain *)

\* agent_chain.py:61: step.get("metrics_threshold", 0.7)
DefaultThreshold == 7

StepThreshold(step) ==
    IF "metrics_threshold" \in DOMAIN step THEN step.metrics_threshold
    ELSE DefaultThreshold

\* agent_chain.py:24-31
_get_fallback_pattern(agent, current_pattern) ==
    CASE current_pattern = "StepwiseInsightSynthesis" -> "RoleDirective"
      [] current_pattern = "RoleDirective" -> "PatternCritiqueThenRewrite"
      [] current_pattern = "PatternCritiqueThenRewrite" -> "StepwiseInsightSynthesis"
      [] OTHER -> None

\* agent_chain.py:125-128: the output names the agent, the pattern and the
\* input it was given.
_execute_step(agent, pattern, input_text) == <<agent, pattern>> \o input_text

\* agent_chain.py:64-67
EffectivePattern(is_adaptive, best_pattern, pattern) ==
    IF is_adaptive /\ best_pattern # None /\ best_pattern # pattern
    THEN best_pattern
    ELSE pattern

\* A faulty variant of StepAfter: the substituted pattern is written into
\* the step of the configuration.
StepAfter_overwritten(step, pattern) == [step EXCEPT !.pattern = pattern]

\* agent_chain.py:60-67: what the configured step is after the loop chose its
\* effective pattern; line 67 assigns the local name only.
StepAfter(step, pattern) == step

\* A faulty variant of FallbackInput: the fallback works on the primary
\* attempt's output.
FallbackInput_chained(input_text, step_output) == step_output

\* agent_chain.py:86-87: the input handed to the fallback attempt is
\* self.chain_output, which line 101 has not yet replaced.
FallbackInput(input_text, step_output) == input_text

\* agent_chain.py:83: any(v < metrics_threshold for v in metrics.values())
BelowThreshold(m, threshold) == \E k \in DOMAIN m : m[k] < threshold

\* A faulty variant of FallbackWanted: the adaptive flag not consulted.
FallbackWanted_always(is_adaptive, m, threshold) == BelowThreshold(m, threshold)

\* agent_chain.py:83
FallbackWanted(is_adaptive, m, threshold) ==
    is_adaptive /\ BelowThreshold(m, threshold)

\* A faulty variant of FallbackPatterns: the fallback's own fallback is
\* tried as well.
FallbackPatterns_chained(agent, pattern) ==
    LET f == _get_fallback_pattern(agent, pattern)
    IN  IF f = None THEN <<>>
        ELSE IF _get_fallback_pattern(agent, f) = None THEN <<f>>
        ELSE <<f, _get_fallback_pattern(agent, f)>>

\* agent_chain.py:84-85: the fallback patterns a step may try, in order: the
\* one lookup of the fallback graph.
FallbackPatterns(agent, pattern) ==
    LET fallback_pattern == _get_fallback_pattern(agent, pattern)
    IN  IF fallback_pattern = None THEN <<>> ELSE <<fallback_pattern>>

\* A faulty variant of MeetsThreshold: one value at the threshold is enough.
MeetsThreshold_any(m, threshold) == \E k \in DOMAIN m : m[k] >= threshold

\* A faulty variant of MeetsThreshold: the fixed 0.7 instead of the step's
\* threshold.
MeetsThreshold_fixed(m, threshold) == \A k \in DOMAIN m : m[k] >= 7

\* agent_chain.py:94: all(v >= metrics_threshold for v in fallback_metrics.values())
MeetsThreshold(m, threshold) == \A k \in DOMAIN m : m[k] >= threshold

\* A faulty variant of FallbackRecorded: every attempt made is recorded.
FallbackRecorded_always(was_tried, was_adopted) == was_tried

\* agent_chain.py:94-98: record_pattern_use for the fallback sits inside the
\* branch that adopts it.
FallbackRecorded(was_tried, was_adopted) == was_tried /\ was_adopted

\* agent_chain.py:33-51, the part that depends on the metrics alone.
generate_step_insights(m) ==
    [improvement_suggestions |-> {k \in DOMAIN m : m[k] < 7}]

\* agent_chain.py:102: {**self.metrics, **metrics}
MergeMetrics(old, new) == new @@ old

\* The cap record_chain_execution keeps (memory_registry.py:75-76).
HistoryCap == 100

\* A faulty variant of record_chain_execution: at the cap the newest entry
\* is the one dropped.
record_chain_execution_oldest(hist, chain_config, m, output) ==
    LET appended == Append(hist, [chain_config |-> chain_config, metrics |-> m,
                                  output_summary |-> output])
    IN  IF Len(appended) > HistoryCap
        THEN SubSeq(appended, 1, HistoryCap)
        ELSE appended

\* memory_registry.py:65-76
record_chain_execution(hist, chain_config, m, output) ==
    LET appended == Append(hist, [chain_config |-> chain_config, metrics |-> m,
                                  output_summary |-> output])
    IN  IF Len(appended) > HistoryCap
        THEN SubSeq(appended, Len(appended) - HistoryCap + 1, Len(appended))
        ELSE appended

\* agent_chain.py:58-111: one iteration of the loop of execute.  primary and
\* fallbacks[i] are what the evaluator returns for the primary attempt and
\* for the i-th fallback attempt.
StepOutcome(ap, step, input_text, is_adaptive, primary, fallbacks) ==
    LET agent == step.agent
        metrics_threshold == StepThreshold(step)
        pattern == EffectivePattern(is_adaptive, get_best_pattern(ap, agent),
                                    step.pattern)
        step_output == _execute_step(agent, pattern, input_text)
        ap1 == record_pattern_use(ap, agent, pattern, primary)
        candidates ==
            IF FallbackWanted(is_adaptive, primary, metrics_threshold)
            THEN FallbackPatterns(agent, pattern)
            ELSE <<>>
        \* the attempts run until one meets the threshold
        passing == {i \in 1..Len(candidates) :
                      MeetsThreshold(fallbacks[i], metrics_threshold)}
        adopted == IF passing = {} THEN 0
                   ELSE CHOOSE i \in passing : \A j \in passing : i <= j
        attempted == IF adopted = 0 THEN Len(candidates) ELSE adopted
        RECURSIVE RecordFallbacks(_, _)
        RecordFallbacks(a, i) ==
            IF i > attempted THEN a
            ELSE RecordFallbacks(
                   IF FallbackRecorded(TRUE, i = adopted)
                   THEN record_pattern_use(a, agent, candidates[i], fallbacks[i])
                   ELSE a,
                   i + 1)
        RECURSIVE LogFallbacks(_, _)
        LogFallbacks(l, i) ==
            IF i > attempted THEN l
            ELSE LogFallbacks(
                   IF FallbackRecorded(TRUE, i = adopted)
                   THEN Log(l, agent, candidates[i], fallbacks[i])
                   ELSE l,
                   i + 1)
    IN  [agent |-> agent,
         adaptive |-> is_adaptive,
         configured |-> step.pattern,
         threshold |-> metrics_threshold,
         input |-> input_text,
         primary_pattern |-> pattern,
         primary_output |-> step_output,
         primary_metrics |-> primary,
         \* the patterns _execute_step was called with, in order
         tried |-> <<pattern>> \o SubSeq(candidates, 1, attempted),
         \* the input_text of each of these calls
         attempt_inputs |->
             <<input_text>> \o [i \in 1..attempted |->
                                  FallbackInput(input_text, step_output)],
         fallback_metrics |-> SubSeq(fallbacks, 1, attempted),
         adopted_fallback |-> adopted # 0,
         pattern |-> IF adopted = 0 THEN pattern ELSE candidates[adopted],
         output |-> IF adopted = 0 THEN step_output
                    ELSE _execute_step(agent, candidates[adopted],
                                       FallbackInput(input_text, step_output)),
         metrics |-> IF adopted = 0 THEN primary ELSE fallbacks[adopted],
         insights |-> generate_step_insights(primary),
         ledger_before |-> ap,
         ledger |-> RecordFallbacks(ap1, 1),
         log |-> LogFallbacks(Log(usage_log, agent, pattern, primary), 1)]

\* A faulty variant of TrailEntry: the entry names the pattern the step
\* started with, not the adopted one.
TrailEntry_primary(trail, o) ==
    [step |-> Len(trail) + 1, agent |-> o.agent, pattern |-> o.primary_pattern,
     metrics |-> o.metrics, insights |-> o.insights]

\* agent_chain.py:105-111
TrailEntry(trail, o) ==
    [step |-> Len(trail) + 1, agent |-> o.agent, pattern |-> o.pattern,
     metrics |-> o.metrics, insights |-> o.insights]

\* agent_chain.py:53-56
StartExecute ==
    /\ pc = "idle"
    \* a run is started only while the ledger has room for its recordings
    /\ TotalUses(agent_patterns) + Len(config) <= MaxUses
    /\ \E input_text \in Inputs, flag \in BOOLEAN :
        /\ chain_output' = input_text
        /\ run_input' = input_text
        /\ adaptive' = flag
    /\ fault' = NoFault
    /\ reasoning_trail' = <<>>
    /\ step_idx' = 1
    /\ pc' = "running"
    /\ last_step' = NoStep
    /\ UNCHANGED <<agent_patterns, chain_history, storage, ret, usage_log,
                   config, metrics, result, threads,
                   flow_call, runs, trail_heap, tool_vars>>

\* agent_chain.py:58-111
ExecuteStep ==
    /\ pc = "running"
    /\ step_idx <= Len(config)
    /\ \E primary \in ChainVectors, fallback \in ChainVectors :
        \E o \in {StepOutcome(agent_patterns, config[step_idx], chain_output,
                             adaptive, primary, <<fallback, fallback>>)} :
            /\ agent_patterns' = o.ledger
            /\ usage_log' = o.log
            /\ chain_output' = o.output
            /\ metrics' = MergeMetrics(metrics, o.metrics)
            /\ reasoning_trail' =
                  Append(reasoning_trail, TrailEntry(reasoning_trail, o))
            /\ config' = [config EXCEPT
                             ![step_idx] = StepAfter(@, o.primary_pattern)]
            /\ last_step' = o
    /\ storage' = Saved(agent_patterns', chain_history)
    /\ step_idx' = step_idx + 1
    /\ UNCHANGED <<chain_history, ret, adaptive, pc, result, run_input, fault,
                   threads,
                   flow_call, runs, trail_heap, tool_vars>>

\* agent_chain.py:113-123
FinishExecute ==
    /\ pc = "running"
    /\ step_idx > Len(config)
    /\ chain_history' = record_chain_execution(chain_history, config, metrics,
                                               chain_output)
    /\ storage' = Saved(agent_patterns, chain_history')
    /\ result' = [output |-> chain_output, metrics |-> metrics,
                  reasoning_trail |-> reasoning_trail]
    /\ pc' = "idle"
    /\ UNCHANGED <<agent_patterns, ret, usage_log, config, adaptive, step_idx,
                   chain_output, metrics, reasoning_trail, last_step, run_input,
                   fault, threads,
                   flow_call, runs, trail_heap, tool_vars>>

\* A faulty variant of AfterFault: the exception is swallowed and the loop
\* goes on with the next step.
AfterFault_skipped(idx) == [pc |-> "running", step_idx |-> idx + 1]

\* agent_chain.py:58-111: the loop has no try/except, so an exception raised
\* inside it leaves execute at once, at the step it was raised in.
AfterFault(idx) == [pc |-> "failed", step_idx |-> idx]

\* agent_chain.py:69-73 and 86-87: the agent executor or the pattern applier
\* behind _execute_step raises, in the primary attempt (attempt = 1) or in
\* the fallback attempt (attempt = 2) of the current step.  Line 80 has
\* recorded the primary attempt by the time the fallback is tried.
ExecuteStepFault ==
    /\ pc = "running"
    /\ step_idx <= Len(config)
    /\ \E primary \in ChainVectors, attempt \in {1, 2} :
        LET step == config[step_idx]
            agent == step.agent
            pattern == EffectivePattern(adaptive,
                                        get_best_pattern(agent_patterns, agent),
                                        step.pattern)
            candidates ==
                IF FallbackWanted(adaptive, primary, StepThreshold(step))
                THEN FallbackPatterns(agent, pattern)
                ELSE <<>>
        IN  /\ attempt = 2 => candidates # <<>>
            /\ agent_patterns' =
                  IF attempt = 1 THEN agent_patterns
                  ELSE record_pattern_use(agent_patterns, agent, pattern, primary)
            /\ usage_log' =
                  IF attempt = 1 THEN usage_log
                  ELSE Log(usage_log, agent, pattern, primary)
            /\ storage' =
                  IF attempt = 1 THEN storage
                  ELSE Saved(agent_patterns', chain_history)
            /\ fault' = [kind |-> "executor", step |-> step_idx,
                         attempt |-> attempt, agent |-> agent,
                         pattern |-> IF attempt = 1 THEN pattern ELSE candidates[1],
                         ledger_before |-> agent_patterns,
                         history_before |-> chain_history,
                         result_before |-> result]
    /\ pc' = AfterFault(step_idx).pc
    /\ step_idx' = AfterFault(step_idx).step_idx
    /\ UNCHANGED <<chain_history, ret, config, adaptive, chain_output, metrics,
                   reasoning_trail, result, last_step, run_input, threads,
                   flow_call, runs, trail_heap, tool_vars>>

\* memory_registry.py:29-33 and 63, called from agent_chain.py:80 (attempt = 1)
\* or agent_chain.py:98 (attempt = 2): record_pattern_use has updated the
\* entry in memory (lines 37-61) when open() in _save_memory raises; neither
\* _save_memory, record_pattern_use nor execute catches it, and the file
\* stays as it was.
RecordSaveFault ==
    /\ pc = "running"
    /\ step_idx <= Len(config)
    /\ \E primary \in ChainVectors, fallback \in ChainVectors, attempt \in {1, 2} :
        \E o \in {StepOutcome(agent_patterns, config[step_idx], chain_output,
                             adaptive, primary, <<fallback, fallback>>)} :
            LET ap1 == record_pattern_use(agent_patterns, o.agent,
                                          o.primary_pattern, primary)
            IN  /\ attempt = 2 => o.adopted_fallback
                /\ agent_patterns' = IF attempt = 1 THEN ap1 ELSE o.ledger
                /\ usage_log' =
                      IF attempt = 1
                      THEN Log(usage_log, o.agent, o.primary_pattern, primary)
                      ELSE o.log
                /\ storage' =
                      IF attempt = 1 THEN storage ELSE Saved(ap1, chain_history)
                /\ fault' = [kind |-> "save", step |-> step_idx,
                             attempt |-> attempt, agent |-> o.agent,
                             pattern |-> IF attempt = 1 THEN o.primary_pattern
                                         ELSE o.pattern,
                             ledger_before |-> agent_patterns,
                             history_before |-> chain_history,
                             result_before |-> result]
    /\ pc' = AfterFault(step_idx).pc
    /\ step_idx' = AfterFault(step_idx).step_idx
    /\ UNCHANGED <<chain_history, ret, config, adaptive, chain_output, metrics,
                   reasoning_trail, result, last_step, run_input, threads,
                   flow_call, runs, trail_heap, tool_vars>>

\* agent_chain.py:14-18: the chain is built from one configuration; the
\* registry starts from a fresh storage file.
Init ==
    /\ InitLedger
    /\ InitChainIdle
    /\ config \in Configs
    /\ threads = <<>>
    /\ flow_call = NoCall
    /\ runs = NoRuns
    /\ trail_heap = NoHeap
    /\ InitTools

Next == StartExecute \/ ExecuteStep \/ FinishExecute

Spec == Init /\ [][Next]_vars

\* Runs in which a collaborator of execute may raise; the chain object is
\* followed up to its first exception.
NextFaults == Next \/ ExecuteStepFault

SpecFaults == Init /\ [][NextFaults]_vars

\* Runs in which saving the ledger may fail, followed likewise.
NextSaveFaults == Next \/ RecordSaveFault

SpecSaveFaults == Init /\ [][NextSaveFaults]_vars

---------------------------------------------------------------------------
(* run_agent_chain of src/agent_chain.py: one call, from its arguments to   *)
(* its return or to the exception that leaves it.                           *)

\* src/agent_chain.py:20, the default of ChainStep.metrics_threshold
ChainStepThreshold == 7

\* src/agent_chain.py:33, the default of the metrics_threshold argument
FlowThreshold == 7

\* The metrics_threshold argument of a call: the default, or 0.4.
FlowThresholds == {FlowThreshold, 4}

\* The step configurations flows are built from: with and without a
\* pattern, with the default threshold, with 0.9 and with 0.
FlowStepSpecs ==
    { [agent |-> "analyst", pattern |-> "RoleDirective"],
      [agent |-> "writer"],
      [agent |-> "analyst", pattern |-> "RoleDirective", metrics_threshold |-> 9],
      [agent |-> "writer", metrics_threshold |-> 0] }

Flows == SeqsUpTo(FlowStepSpecs, MaxSteps)

\* What the evaluator returns to run_agent_chain.
FlowVectors == [{"overall"} -> Scores]

\* src/agent_chain.py:14-20 and 58: ChainStep(**step_config)
ChainStep(step_config) ==
    [agent |-> step_config.agent,
     pattern |-> IF "pattern" \in DOMAIN step_config
                 THEN step_config.pattern ELSE None,
     tension_type |-> None,
     metrics_threshold |-> IF "metrics_threshold" \in DOMAIN step_config
                           THEN step_config.metrics_threshold
                           ELSE ChainStepThreshold]

\* src/agent_chain.py:76: `step.metrics_threshold or metrics_threshold`
EffectiveThreshold(step_threshold, metrics_threshold) ==
    IF step_threshold = 0 THEN metrics_threshold ELSE step_threshold

\* m.get(name, 0)
GetOrZero(m, name) == IF name \in DOMAIN m THEN m[name] ELSE 0

\* src/agent_chain.py:183-211, in SEQUENTIAL mode; previous_metrics is the
\* empty mapping where the code has None.
generate_chain_step_insights(step, previous_metrics) ==
    (IF step.pattern # None THEN <<"pattern applied">> ELSE <<>>)
    \o (IF DOMAIN previous_metrics # {} /\ GetOrZero(previous_metrics, "overall") < 7
        THEN <<"quality improved">> ELSE <<>>)
    \o (IF DOMAIN previous_metrics # {}
           /\ GetOrZero(previous_metrics, "block_relevance") < 7
        THEN <<"block relevance enhanced">> ELSE <<>>)

\* src/agent_chain.py:110-152: the pattern, when there is one, is applied to
\* the input and the agent works on the result; the dict returned has the
\* keys "output" and "insights" and no other.
execute_chain_step(step, input_text, previous_metrics) ==
    LET patterned == IF step.pattern # None
                     THEN <<step.pattern>> \o input_text
                     ELSE input_text
    IN  [output |-> <<step.agent>> \o patterned,
         insights |-> generate_chain_step_insights(step, previous_metrics)]

\* src/agent_chain.py:154-181: the same step again, with the metrics of the
\* first attempt as previous_metrics.
retry_chain_step(step, input_text, previous_metrics) ==
    execute_chain_step(step, input_text, previous_metrics)

\* src/agent_chain.py:57-100: one iteration of the loop, the evaluator
\* returning m for the step's output.  Line 84 reads retry_result["metrics"];
\* a dict without that key raises KeyError there.
FlowIteration(call, m) ==
    LET step_config == call.flow[Len(call.results) + 1]
        step == ChainStep(step_config)
        first_result == execute_chain_step(step, call.current_input,
                                           call.previous_metrics)
        shortfall == m["overall"] < EffectiveThreshold(step.metrics_threshold,
                                                       call.metrics_threshold)
        retry_result == retry_chain_step(step, call.current_input, m)
    IN  IF shortfall /\ "metrics" \notin DOMAIN retry_result
        THEN [call EXCEPT !.pc = "raised", !.error = "KeyError",
                          !.shortfalls = @ + 1,
                          !.judged = [step |-> step_config, metrics |-> m,
                                      shortfall |-> shortfall]]
        ELSE LET step_result ==
                     IF shortfall /\ retry_result.metrics["overall"] > m["overall"]
                     THEN retry_result
                     ELSE first_result
             IN  [call EXCEPT
                    !.results = Append(@, [step |-> step_config,
                                           input |-> call.current_input,
                                           output |-> step_result.output,
                                           metrics |-> m,
                                           insights |-> step_result.insights]),
                    !.current_input = step_result.output,
                    !.previous_metrics = m,
                    !.metrics_history = Append(@, m),
                    !.chain_insights = @ \o step_result.insights,
                    !.shortfalls = @ + (IF shortfall THEN 1 ELSE 0),
                    !.judged = [step |-> step_config, metrics |-> m,
                                shortfall |-> shortfall]]

\* src/agent_chain.py:48-55
RunAgentChain ==
    /\ flow_call.pc = "idle"
    /\ \E input_text \in Inputs :
        flow_call' = [flow_call EXCEPT !.pc = "running",
                                       !.current_input = input_text]
    /\ UNCHANGED <<agent_patterns, chain_history, storage, ret, usage_log,
                   config, adaptive, pc, step_idx, chain_output, metrics,
                   reasoning_trail, result, last_step, run_input, fault,
                   threads, runs, trail_heap, tool_vars>>

\* src/agent_chain.py:57-100
FlowStep ==
    /\ flow_call.pc = "running"
    /\ Len(flow_call.results) < Len(flow_call.flow)
    /\ \E m \in FlowVectors : flow_call' = FlowIteration(flow_call, m)
    /\ UNCHANGED <<agent_patterns, chain_history, storage, ret, usage_log,
                   config, adaptive, pc, step_idx, chain_output, metrics,
                   reasoning_trail, result, last_step, run_input, fault,
                   threads, runs, trail_heap, tool_vars>>

\* src/agent_chain.py:102-108: the loop is over and the dict is built;
\* assess_chain_quality reads metrics_history[-1] (line 288), an IndexError
\* when no step has run.
FlowReturn ==
    /\ flow_call.pc = "running"
    /\ Len(flow_call.results) = Len(flow_call.flow)
    /\ flow_call' =
          IF flow_call.metrics_history = <<>>
          THEN [flow_call EXCEPT !.pc = "raised", !.error = "IndexError"]
          ELSE [flow_call EXCEPT
                  !.pc = "returned",
                  !.returned = [chain_results |-> flow_call.results,
                                metrics_history |-> flow_call.metrics_history,
                                chain_insights |-> flow_call.chain_insights]]
    /\ UNCHANGED <<agent_patterns, chain_history, storage, ret, usage_log,
                   config, adaptive, pc, step_idx, chain_output, metrics,
                   reasoning_trail, result, last_step, run_input, fault,
                   threads, runs, trail_heap, tool_vars>>

\* A call of run_agent_chain about to be made.  shortfalls and judged are
\* history: how many steps scored below their threshold, and the step
\* configuration, the metrics and the verdict of line 76 in the latest
\* iteration.
InitFlow ==
    /\ InitLedger
    /\ InitChainIdle
    /\ config = <<>>
    /\ threads = <<>>
    /\ \E flow \in Flows, metrics_threshold \in FlowThresholds :
        flow_call = [pc |-> "idle", flow |-> flow,
                     metrics_threshold |-> metrics_threshold,
                     current_input |-> <<>>, previous_metrics |-> <<>>,
                     results |-> <<>>, metrics_history |-> <<>>,
                     chain_insights |-> <<>>, shortfalls |-> 0,
                     judged |-> <<>>,
                     error |-> None, returned |-> <<>>]
    /\ runs = NoRuns
    /\ trail_heap = NoHeap
    /\ InitTools

NextFlow == RunAgentChain \/ FlowStep \/ FlowReturn

SpecFlow == InitFlow /\ [][NextFlow]_vars

---------------------------------------------------------------------------
(* record_pattern_use called from concurrent runs.  The method takes no     *)
(* lock, so calls interleave between its statements; lines 37-47 and each   *)
(* of the later blocks are taken as one step here, the += of line 48 as a   *)
(* load and a store.                                                        *)

IdleThread == [pc |-> "idle"]

InFlight == {t \in Threads : threads[t].pc # "idle"}

CompletedCalls ==
    LET RECURSIVE SumCalls(_)
        SumCalls(S) ==
            IF S = {} THEN 0
            ELSE LET k == CHOOSE x \in S : TRUE
                 IN  usage_log[k].calls + SumCalls(S \ {k})
    IN  SumCalls(Agents \X Patterns)

ThreadIndex(t) == IndexOf(agent_patterns[threads[t].agent], threads[t].pattern)

\* memory_registry.py:35: a run enters record_pattern_use.
ConcCall(t) ==
    /\ threads[t].pc = "idle"
    /\ CompletedCalls + Cardinality(InFlight) < MaxUses
    /\ \E agent \in ConcurrentAgents, pattern \in LedgerPatterns,
          m \in ConcurrentVectors :
        threads' = [threads EXCEPT ![t] =
                       [pc |-> "ensure", agent |-> agent, pattern |-> pattern,
                        metrics |-> m, loaded |-> 0]]
    /\ UNCHANGED <<agent_patterns, chain_history, storage, ret, usage_log,
                   chain_vars>>

\* memory_registry.py:37-47
ConcEnsure(t) ==
    /\ threads[t].pc = "ensure"
    /\ agent_patterns' = EnsureEntry(agent_patterns, threads[t].agent,
                                     threads[t].pattern)
    /\ threads' = [threads EXCEPT ![t].pc = "load_uses"]
    /\ UNCHANGED <<chain_history, storage, ret, usage_log, chain_vars>>

\* memory_registry.py:48, reading entry["uses"]
ConcLoadUses(t) ==
    /\ threads[t].pc = "load_uses"
    /\ threads' = [threads EXCEPT
                     ![t].loaded = agent_patterns[threads[t].agent][ThreadIndex(t)].uses,
                     ![t].pc = "store_uses"]
    /\ UNCHANGED <<agent_patterns, chain_history, storage, ret, usage_log,
                   chain_vars>>

\* memory_registry.py:48, storing entry["uses"]
ConcStoreUses(t) ==
    /\ threads[t].pc = "store_uses"
    /\ agent_patterns' =
          [agent_patterns EXCEPT ![threads[t].agent][ThreadIndex(t)].uses =
              threads[t].loaded + 1]
    /\ threads' = [threads EXCEPT ![t].pc = "avg_metrics"]
    /\ UNCHANGED <<chain_history, storage, ret, usage_log, chain_vars>>

\* memory_registry.py:51-56
ConcAvgMetrics(t) ==
    /\ threads[t].pc = "avg_metrics"
    /\ agent_patterns' =
          [agent_patterns EXCEPT ![threads[t].agent][ThreadIndex(t)].avg_metrics =
              UpdateAvgMetrics(@, agent_patterns[threads[t].agent][ThreadIndex(t)].uses,
                               threads[t].metrics)]
    /\ threads' = [threads EXCEPT ![t].pc = "success_rate"]
    /\ UNCHANGED <<chain_history, storage, ret, usage_log, chain_vars>>

\* memory_registry.py:59-61
ConcSuccessRate(t) ==
    /\ threads[t].pc = "success_rate"
    /\ agent_patterns' =
          [agent_patterns EXCEPT ![threads[t].agent][ThreadIndex(t)].success_rate =
              UpdateSuccessRate(@, agent_patterns[threads[t].agent][ThreadIndex(t)].uses,
                                IsSuccess(threads[t].metrics))]
    /\ threads' = [threads EXCEPT ![t].pc = "save"]
    /\ UNCHANGED <<chain_history, storage, ret, usage_log, chain_vars>>

\* memory_registry.py:63: save and return.
ConcSave(t) ==
    /\ threads[t].pc = "save"
    /\ storage' = Saved(agent_patterns, chain_history)
    /\ usage_log' = Log(usage_log, threads[t].agent, threads[t].pattern,
                        threads[t].metrics)
    /\ threads' = [threads EXCEPT ![t] = IdleThread]
    /\ UNCHANGED <<agent_patterns, chain_history, ret, chain_vars>>

InitConcurrent ==
    /\ InitLedger
    /\ InitChainIdle
    /\ config = <<>>
    /\ threads = [t \in Threads |-> IdleThread]
    /\ flow_call = NoCall
    /\ runs = NoRuns
    /\ trail_heap = NoHeap
    /\ InitTools

NextConcurrent ==
    \E t \in Threads :
        \/ ConcCall(t)
        \/ ConcEnsure(t)
        \/ ConcLoadUses(t)
        \/ ConcStoreUses(t)
        \/ ConcAvgMetrics(t)
        \/ ConcSuccessRate(t)
        \/ ConcSave(t)

SpecConcurrent == InitConcurrent /\ [][NextConcurrent]_vars

---------------------------------------------------------------------------
(* Two threads call execute(input_text, adaptive=False) on one AgentChain   *)
(* object.  chain_output, metrics and reasoning_trail are attributes of the *)
(* object (agent_chain.py:16-18), so both calls read and write the same     *)
(* ones; execute takes no lock, and the calls interleave between its        *)
(* statements.  The loop position, step_output and the step's metrics are   *)
(* locals of each call.  trail_heap.lists[id] is the list object created by *)
(* id ("init" for __init__), trail_heap.self the one self.reasoning_trail    *)
(* refers to; reasoning_trail is its contents.                              *)

\* The input_text of each call.
SharedInput(t) == <<"request of", t>>

\* What the evaluator returns to these calls.
SharedVectors == {[overall |-> 9]}

ListIds == {"init"} \cup Threads

IdleRun == [pc |-> "idle", idx |-> 1, step_output |-> <<>>,
            step_metrics |-> <<>>, returned |-> <<>>]

\* The contents of the trail a call returned: the dict of lines 119-123
\* holds the list object itself.
ReturnedTrail(t) == trail_heap.lists[runs[t].returned.trail_ref]

\* agent_chain.py:55
SharedBegin(t) ==
    /\ runs[t].pc = "idle"
    /\ chain_output' = SharedInput(t)
    /\ runs' = [runs EXCEPT ![t].pc = "reset"]
    /\ UNCHANGED <<agent_patterns, chain_history, storage, ret, usage_log,
                   config, adaptive, pc, step_idx, metrics, reasoning_trail,
                   result, last_step, run_input, fault, threads, flow_call,
                   trail_heap, tool_vars>>

\* agent_chain.py:56: a new list object
SharedReset(t) ==
    /\ runs[t].pc = "reset"
    /\ trail_heap' = [self |-> t,
                      lists |-> [trail_heap.lists EXCEPT ![t] = <<>>]]
    /\ reasoning_trail' = <<>>
    /\ runs' = [runs EXCEPT ![t].pc = "step"]
    /\ UNCHANGED <<agent_patterns, chain_history, storage, ret, usage_log,
                   config, adaptive, pc, step_idx, chain_output, metrics,
                   result, last_step, run_input, fault, threads, flow_call,
                   tool_vars>>

\* agent_chain.py:58-80 with adaptive=False: the step works on
\* self.chain_output as it is now, and the attempt is recorded.
SharedExecute(t) ==
    /\ runs[t].pc = "step"
    /\ runs[t].idx <= Len(config)
    /\ \E m \in SharedVectors :
        LET step == config[runs[t].idx]
        IN  /\ runs' = [runs EXCEPT
                          ![t].step_output =
                              _execute_step(step.agent, step.pattern, chain_output),
                          ![t].step_metrics = m,
                          ![t].pc = "store"]
            /\ agent_patterns' =
                  record_pattern_use(agent_patterns, step.agent, step.pattern, m)
            /\ usage_log' = Log(usage_log, step.agent, step.pattern, m)
    /\ storage' = Saved(agent_patterns', chain_history)
    /\ UNCHANGED <<chain_history, ret, config, adaptive, pc, step_idx,
                   chain_output, metrics, reasoning_trail, result, last_step,
                   run_input, fault, threads, flow_call, trail_heap,
                   tool_vars>>

\* agent_chain.py:101-102
SharedStore(t) ==
    /\ runs[t].pc = "store"
    /\ chain_output' = runs[t].step_output
    /\ metrics' = MergeMetrics(metrics, runs[t].step_metrics)
    /\ runs' = [runs EXCEPT ![t].pc = "append"]
    /\ UNCHANGED <<agent_patterns, chain_history, storage, ret, usage_log,
                   config, adaptive, pc, step_idx, reasoning_trail, result,
                   last_step, run_input, fault, threads, flow_call, trail_heap,
                   tool_vars>>

\* agent_chain.py:105-111: the entry goes to the list self.reasoning_trail
\* refers to now, numbered by that list's length.
SharedAppend(t) ==
    /\ runs[t].pc = "append"
    /\ LET step == config[runs[t].idx]
           current == trail_heap.lists[trail_heap.self]
           entry == TrailEntry(current,
                               [agent |-> step.agent, pattern |-> step.pattern,
                                primary_pattern |-> step.pattern,
                                metrics |-> runs[t].step_metrics,
                                insights |-> generate_step_insights(
                                                runs[t].step_metrics)])
       IN  /\ trail_heap' = [trail_heap EXCEPT
                               !.lists[trail_heap.self] = Append(current, entry)]
           /\ reasoning_trail' = Append(current, entry)
    /\ runs' = [runs EXCEPT ![t].pc = "step", ![t].idx = @ + 1]
    /\ UNCHANGED <<agent_patterns, chain_history, storage, ret, usage_log,
                   config, adaptive, pc, step_idx, chain_output, metrics,
                   result, last_step, run_input, fault, threads, flow_call,
                   tool_vars>>

\* agent_chain.py:113-123
SharedFinish(t) ==
    /\ runs[t].pc = "step"
    /\ runs[t].idx > Len(config)
    /\ chain_history' = record_chain_execution(chain_history, config, metrics,
                                               chain_output)
    /\ storage' = Saved(agent_patterns, chain_history')
    /\ runs' = [runs EXCEPT
                  ![t].pc = "done",
                  ![t].returned = [output |-> chain_output, metrics |-> metrics,
                                   trail_ref |-> trail_heap.self]]
    /\ result' = [output |-> chain_output, metrics |-> metrics,
                  reasoning_trail |-> reasoning_trail]
    /\ UNCHANGED <<agent_patterns, ret, usage_log, config, adaptive, pc,
                   step_idx, chain_output, metrics, reasoning_trail, last_step,
                   run_input, fault, threads, flow_call, trail_heap,
                   tool_vars>>

InitShared ==
    /\ InitLedger
    /\ InitChainIdle
    /\ config \in Configs
    /\ threads = <<>>
    /\ flow_call = NoCall
    /\ runs = [t \in Threads |-> IdleRun]
    /\ trail_heap = [self |-> "init", lists |-> [id \in ListIds |-> <<>>]]
    /\ InitTools

NextShared ==
    \E t \in Threads :
        \/ SharedBegin(t)
        \/ SharedReset(t)
        \/ SharedExecute(t)
        \/ SharedStore(t)
        \/ SharedAppend(t)
        \/ SharedFinish(t)

SpecShared == InitShared /\ [][NextShared]_vars

---------------------------------------------------------------------------
(* The aggregation of a metrics history (src/agent_chain.py:213-299)       *)

\* Every variable outside tool_vars.
core_vars == <<agent_patterns, chain_history, storage, ret, usage_log, config,
               adaptive, pc, step_idx, chain_output, metrics, reasoning_trail,
               result, last_step, run_input, fault, threads, flow_call, runs,
               trail_heap>>

\* The longest metrics history aggregated.
MaxHistory == 3

\* Step metrics: overall alone at three levels, overall together with a
\* second metric, and a second metric without overall.
SummaryVectors ==
    [{"overall"} -> {5, 6, 9}]
        \cup {[overall |-> 6, clarity_score |-> 4],
              [clarity_score |-> 8]}

Histories == SeqsUpTo(SummaryVectors, MaxHistory)

\* A score in tenths as an exact number.
Tenths(k) == Norm(k, 10)

RatSub(x, y) == RatAdd(x, <<-y[1], y[2]>>)

\* Python's min(x, y): y when y < x, else x.
RatMin(x, y) == IF RatLess(y, x) THEN y ELSE x

RECURSIVE RatSum(_)
RatSum(values) ==
    IF values = <<>> THEN RatInt(0)
    ELSE RatAdd(values[1], RatSum(Tail(values)))

\* src/agent_chain.py:239: [m.get("overall", 0) for m in metrics_history]
OverallScores(metrics_history) ==
    [i \in 1..Len(metrics_history) |->
        Tenths(GetOrZero(metrics_history[i], "overall"))]

\* A faulty variant of calculate_improvement_trend: the differences are
\* averaged over the number of scores.
calculate_improvement_trend_per_score(metrics_history) ==
    IF Len(metrics_history) < 2 THEN RatInt(1)
    ELSE LET overall_scores == OverallScores(metrics_history)
             improvements ==
                 [i \in 1..(Len(overall_scores) - 1) |->
                     RatSub(overall_scores[i + 1], overall_scores[i])]
         IN  RatAdd(RatDivInt(RatSum(improvements), Len(overall_scores)),
                    RatInt(1))

\* src/agent_chain.py:234-242
calculate_improvement_trend(metrics_history) ==
    IF Len(metrics_history) < 2 THEN RatInt(1)
    ELSE LET overall_scores == OverallScores(metrics_history)
             improvements ==
                 [i \in 1..(Len(overall_scores) - 1) |->
                     RatSub(overall_scores[i + 1], overall_scores[i])]
         IN  RatAdd(RatDivInt(RatSum(improvements), Len(improvements)),
                    RatInt(1))

\* A faulty variant of calculate_consistency_score: the spread is the mean
\* distance from the first score.
calculate_consistency_score_from_first(metrics_history) ==
    IF metrics_history = <<>> THEN RatInt(1)
    ELSE LET overall_scores == OverallScores(metrics_history)
             squares ==
                 [i \in 1..Len(overall_scores) |->
                     RatMul(RatSub(overall_scores[i], overall_scores[1]),
                            RatSub(overall_scores[i], overall_scores[1]))]
             variance == RatDivInt(RatSum(squares), Len(overall_scores))
         IN  RatSub(RatInt(1), RatMin(variance, RatInt(1)))

\* src/agent_chain.py:244-252
calculate_consistency_score(metrics_history) ==
    IF metrics_history = <<>> THEN RatInt(1)
    ELSE LET overall_scores == OverallScores(metrics_history)
             mean == RatDivInt(RatSum(overall_scores), Len(overall_scores))
             squares ==
                 [i \in 1..Len(overall_scores) |->
                     RatMul(RatSub(overall_scores[i], mean),
                            RatSub(overall_scores[i], mean))]
             variance == RatDivInt(RatSum(squares), Len(overall_scores))
         IN  RatSub(RatInt(1), RatMin(variance, RatInt(1)))

\* A faulty variant of calculate_chain_effectiveness: the final quality is
\* read from the first entry.
calculate_chain_effectiveness_first(metrics_history) ==
    IF metrics_history = <<>> THEN RatInt(0)
    ELSE LET improvement_trend == calculate_improvement_trend(metrics_history)
             consistency_score == calculate_consistency_score(metrics_history)
             final_quality ==
                 Tenths(GetOrZero(metrics_history[1], "overall"))
         IN  RatAdd(RatAdd(RatMul(improvement_trend, Tenths(3)),
                           RatMul(consistency_score, Tenths(3))),
                    RatMul(final_quality, Tenths(4)))

\* src/agent_chain.py:254-263
calculate_chain_effectiveness(metrics_history) ==
    IF metrics_history = <<>> THEN RatInt(0)
    ELSE LET improvement_trend == calculate_improvement_trend(metrics_history)
             consistency_score == calculate_consistency_score(metrics_history)
             final_quality ==
                 Tenths(GetOrZero(metrics_history[Len(metrics_history)],
                                  "overall"))
         IN  RatAdd(RatAdd(RatMul(improvement_trend, Tenths(3)),
                           RatMul(consistency_score, Tenths(3))),
                    RatMul(final_quality, Tenths(4)))

\* A faulty variant of Rating: the boundaries belong to the higher rating.
Rating_inclusive(chain_effectiveness) ==
    IF RatLeq(Tenths(9), chain_effectiveness) THEN "excellent"
    ELSE IF RatLeq(Tenths(8), chain_effectiveness) THEN "good"
    ELSE IF RatLeq(Tenths(7), chain_effectiveness) THEN "acceptable"
    ELSE "needs_improvement"

\* src/agent_chain.py:274-277
Rating(chain_effectiveness) ==
    IF RatLess(Tenths(9), chain_effectiveness) THEN "excellent"
    ELSE IF RatLess(Tenths(8), chain_effectiveness) THEN "good"
    ELSE IF RatLess(Tenths(7), chain_effectiveness) THEN "acceptable"
    ELSE "needs_improvement"

\* The texts of src/agent_chain.py:283-297 that apply, in order.
Remarks(candidates) ==
    LET applies == {i \in 1..Len(candidates) : candidates[i].applies}
        IthOf[n \in 0..Len(candidates)] ==
            IF n = 0 THEN 0
            ELSE CHOOSE i \in applies :
                    Cardinality({j \in applies : j <= i}) = n
    IN  [n \in 1..Cardinality(applies) |-> candidates[IthOf[n]].text]

\* src/agent_chain.py:265-299, for a history that is not empty; line 288
\* reads metrics_history[-1].
assess_chain_quality(metrics_history) ==
    LET chain_effectiveness == calculate_chain_effectiveness(metrics_history)
        last == metrics_history[Len(metrics_history)]
    IN  [score |-> chain_effectiveness,
         rating |-> Rating(chain_effectiveness),
         strengths |-> Remarks(<<
             [applies |-> RatLess(RatInt(0),
                                  calculate_improvement_trend(metrics_history)),
              text |-> "Consistent improvement across chain"],
             [applies |-> RatLess(Tenths(8),
                                  calculate_consistency_score(metrics_history)),
              text |-> "High output consistency"],
             [applies |-> GetOrZero(last, "block_relevance") > 8,
              text |-> "Strong Block-specific relevance"]>>),
         improvement_areas |-> Remarks(<<
             [applies |-> RatLess(calculate_consistency_score(metrics_history),
                                  Tenths(7)),
              text |-> "Output consistency could be improved"],
             [applies |-> GetOrZero(last, "innovation_score") < 7,
              text |-> "Innovation level could be enhanced"],
             [applies |-> GetOrZero(last, "pattern_effectiveness") < 7,
              text |-> "Pattern application could be more effective"]>>)]

\* src/agent_chain.py:222-223: the entries of metrics_history that carry key.
ValuesOf(metrics_history, key) ==
    LET carriers == {i \in 1..Len(metrics_history) :
                        key \in DOMAIN metrics_history[i]}
        IthOf[n \in 0..Len(metrics_history)] ==
            IF n = 0 THEN 0
            ELSE CHOOSE i \in carriers :
                    Cardinality({j \in carriers : j <= i}) = n
    IN  [n \in 1..Cardinality(carriers) |->
            Tenths(metrics_history[IthOf[n]][key])]

\* src/agent_chain.py:213-232.  Every value of the histories here is a
\* number, so the isinstance filter of line 219 keeps every key.
calculate_chain_metrics(metrics_history) ==
    IF metrics_history = <<>> THEN <<>>
    ELSE LET metric_keys == DOMAIN metrics_history[1]
             averages ==
                 [key \in metric_keys |->
                     LET values == ValuesOf(metrics_history, key)
                     IN  IF values # <<>>
                         THEN RatDivInt(RatSum(values), Len(values))
                         ELSE RatInt(0)]
         IN  [average_metrics |-> averages,
              improvement_trend |->
                  calculate_improvement_trend(metrics_history),
              consistency_score |->
                  calculate_consistency_score(metrics_history),
              chain_effectiveness |->
                  calculate_chain_effectiveness(metrics_history)]

\* A caller holds a metrics history and applies a function to it once.
Apply(function) ==
    /\ summary.pc = "ready"
    /\ function \notin summary.called

CalculateImprovementTrend ==
    /\ Apply("calculate_improvement_trend")
    /\ summary' = [summary EXCEPT
          !.called = @ \cup {"calculate_improvement_trend"},
          !.improvement_trend =
              calculate_improvement_trend(summary.metrics_history)]
    /\ UNCHANGED <<core_vars, monitor, deployer, recorder>>

CalculateConsistencyScore ==
    /\ Apply("calculate_consistency_score")
    /\ summary' = [summary EXCEPT
          !.called = @ \cup {"calculate_consistency_score"},
          !.consistency_score =
              calculate_consistency_score(summary.metrics_history)]
    /\ UNCHANGED <<core_vars, monitor, deployer, recorder>>

CalculateChainEffectiveness ==
    /\ Apply("calculate_chain_effectiveness")
    /\ summary' = [summary EXCEPT
          !.called = @ \cup {"calculate_chain_effectiveness"},
          !.chain_effectiveness =
              calculate_chain_effectiveness(summary.metrics_history)]
    /\ UNCHANGED <<core_vars, monitor, deployer, recorder>>

\* On the empty history line 288 raises IndexError and nothing is returned.
AssessChainQuality ==
    /\ Apply("assess_chain_quality")
    /\ summary' =
          IF summary.metrics_history = <<>>
          THEN [summary EXCEPT !.called = @ \cup {"assess_chain_quality"},
                               !.error = "IndexError"]
          ELSE [summary EXCEPT
                  !.called = @ \cup {"assess_chain_quality"},
                  !.chain_quality =
                      assess_chain_quality(summary.metrics_history)]
    /\ UNCHANGED <<core_vars, monitor, deployer, recorder>>

CalculateChainMetrics ==
    /\ Apply("calculate_chain_metrics")
    /\ summary' = [summary EXCEPT
          !.called = @ \cup {"calculate_chain_metrics"},
          !.overall_metrics = calculate_chain_metrics(summary.metrics_history)]
    /\ UNCHANGED <<core_vars, monitor, deployer, recorder>>

InitSummary ==
    /\ InitLedger
    /\ InitChainIdle
    /\ config = <<>>
    /\ threads = <<>>
    /\ flow_call = NoCall
    /\ runs = NoRuns
    /\ trail_heap = NoHeap
    /\ \E metrics_history \in Histories :
        summary = [pc |-> "ready", metrics_history |-> metrics_history,
                   called |-> {}, improvement_trend |-> <<>>,
                   consistency_score |-> <<>>, chain_effectiveness |-> <<>>,
                   chain_quality |-> <<>>, overall_metrics |-> <<>>,
                   error |-> None]
    /\ monitor = NoMonitor
    /\ deployer = NoDeployer
    /\ recorder = NoRecorder

NextSummary ==
    \/ CalculateImprovementTrend
    \/ CalculateConsistencyScore
    \/ CalculateChainEffectiveness
    \/ AssessChainQuality
    \/ CalculateChainMetrics

SpecSummary == InitSummary /\ [][NextSummary]_vars

---------------------------------------------------------------------------
(* FusionV11Monitor (src/fusion_v11_monitoring_system.py)                  *)
(* Scores are in hundredths, usages in percent, response times in ms;      *)
(* timestamps are left out.                                                *)

\* How many calls and loop iterations one monitor sees.
MaxMonitorCalls == 4

\* What callers of update_agent_metrics report: the agent of the test suite
\* (test_fusion_v11_complete.py:364, trust and bias at their defaults) and a
\* slow agent of low trust.
AgentReports ==
    {[agent_id |-> "TestAgent", response_time_ms |-> 300, success_rate |-> 95,
      confidence_accuracy |-> 88, quality_score |-> 92, trust_score |-> 85,
      bias_score |-> 5],
     [agent_id |-> "SlowAgent", response_time_ms |-> 1200, success_rate |-> 80,
      confidence_accuracy |-> 70, quality_score |-> 95, trust_score |-> 70,
      bias_score |-> 20]}

\* What callers of update_v11_metrics report: test_fusion_v11_complete.py:365
\* and a call with design craft scores only.
V11Reports ==
    {[execution_mode |-> "ship", personality_overlay |-> "jobs",
      creative_tension |-> "vision_vs_execution",
      design_craft_scores |-> <<>>],
     [execution_mode |-> "iterate", personality_overlay |-> None,
      creative_tension |-> None,
      design_craft_scores |-> [innovation_score |-> 85]]}

\* What psutil reads (lines 182-184).
CpuReadings == {50, 90}
MemoryReadings == {50}
DiskReadings == {50}

Hundredths(k) == Norm(k, 100)

\* The alert thresholds of _load_config (lines 101-108), no config file.
CpuAlert == 80
MemoryAlert == 85
ResponseAlert == 1000
TrustAlert == 80
BiasAlert == 90

\* Lines 329 and 340.
CpuSuggestion == 70
ResponseSuggestion == 800

\* Lines 365 and 373.
DefaultTrust == 85
DefaultBias == 95

\* Line 351.
FewModes == 3

\* Position of agent_id in the dict agent_metrics, 0 if absent.
AgentIndex(agent_metrics, agent_id) ==
    IF \E i \in 1..Len(agent_metrics) : agent_metrics[i].agent_id = agent_id
    THEN CHOOSE i \in 1..Len(agent_metrics) :
            agent_metrics[i].agent_id = agent_id
    ELSE 0

\* Lines 231-245: self.agent_metrics[agent_id] = AgentMetrics(...)
update_agent_metrics(agent_metrics, report) ==
    LET i == AgentIndex(agent_metrics, report.agent_id)
    IN  IF i = 0 THEN Append(agent_metrics, report)
        ELSE [agent_metrics EXCEPT ![i] = report]

\* Lines 251-265: one usage counter.
CountUse(counters, name, field) ==
    IF name \in DOMAIN counters
    THEN [counters EXCEPT ![name].count = @ + 1]
    ELSE counters @@ (name :> (("count" :> 1) @@ (field :> 0)))

\* A sequence of numbers as exact values.
MeanOf(values) == RatDivInt(RatSum(values), Len(values))

\* Lines 362-368
_calculate_average_trust_quality(agent_metrics) ==
    IF agent_metrics = <<>> THEN Hundredths(DefaultTrust)
    ELSE MeanOf([i \in 1..Len(agent_metrics) |->
                    Hundredths(agent_metrics[i].trust_score)])

\* Lines 370-377
_calculate_average_bias_accuracy(agent_metrics) ==
    IF agent_metrics = <<>> THEN Hundredths(DefaultBias)
    ELSE MeanOf([i \in 1..Len(agent_metrics) |->
                    RatSub(RatInt(1), Hundredths(agent_metrics[i].bias_score))])

\* Lines 179-214
collect_system_health(agent_metrics, cpu_usage, memory_usage, disk_usage) ==
    LET trust_calibration_quality ==
            _calculate_average_trust_quality(agent_metrics)
        bias_detection_accuracy ==
            _calculate_average_bias_accuracy(agent_metrics)
        health_components ==
            <<Hundredths(100 - cpu_usage), Hundredths(100 - memory_usage),
              Hundredths(100 - disk_usage), trust_calibration_quality,
              bias_detection_accuracy>>
    IN  [cpu_usage |-> cpu_usage,
         memory_usage |-> memory_usage,
         disk_usage |-> disk_usage,
         agent_performance |->
             [i \in 1..Len(agent_metrics) |->
                 [agent_id |-> agent_metrics[i].agent_id,
                  quality_score |-> agent_metrics[i].quality_score]],
         trust_calibration_quality |-> trust_calibration_quality,
         bias_detection_accuracy |-> bias_detection_accuracy,
         overall_health_score |-> MeanOf(health_components)]

\* The members of candidates that apply, in order.
Raised(candidates) ==
    LET applies == {i \in 1..Len(candidates) : candidates[i].applies}
        IthOf[n \in 0..Len(candidates)] ==
            IF n = 0 THEN 0
            ELSE CHOOSE i \in applies :
                    Cardinality({j \in applies : j <= i}) = n
    IN  [n \in 1..Cardinality(applies) |-> candidates[IthOf[n]].item]

\* Lines 271-320
check_for_alerts(system_health, agent_metrics) ==
    Raised(
        <<[applies |-> system_health.cpu_usage > CpuAlert,
           item |-> [type |-> "high_cpu_usage", severity |-> "warning"]],
          [applies |-> system_health.memory_usage > MemoryAlert,
           item |-> [type |-> "high_memory_usage", severity |-> "warning"]]>>
        \o [i \in 1..Len(agent_metrics) |->
              [applies |-> agent_metrics[i].response_time_ms > ResponseAlert,
               item |-> [type |-> "slow_agent_response",
                         severity |-> "warning"]]]
        \o <<[applies |-> RatLess(system_health.trust_calibration_quality,
                                  Hundredths(TrustAlert)),
              item |-> [type |-> "low_trust_calibration",
                        severity |-> "critical"]],
             [applies |-> RatLess(system_health.bias_detection_accuracy,
                                  Hundredths(BiasAlert)),
              item |-> [type |-> "low_bias_detection",
                        severity |-> "critical"]]>>)

\* Lines 322-360
generate_optimization_suggestions(system_health, agent_metrics, modes) ==
    Raised(
        <<[applies |-> system_health.cpu_usage > CpuSuggestion,
           item |-> [type |-> "performance_optimization",
                     priority |-> "medium"]],
          [applies |-> \E i \in 1..Len(agent_metrics) :
                          agent_metrics[i].response_time_ms
                              > ResponseSuggestion,
           item |-> [type |-> "agent_optimization", priority |-> "high"]],
          [applies |-> Cardinality(DOMAIN modes) < FewModes,
           item |-> [type |-> "v11_enhancement", priority |-> "low"]]>>)

\* The last n members of a list: list[-n:].
LastOf(list, n) ==
    IF Len(list) <= n THEN list
    ELSE SubSeq(list, Len(list) - n + 1, Len(list))

\* Lines 431-437
_calculate_average_response_time(agent_metrics) ==
    IF agent_metrics = <<>> THEN RatInt(0)
    ELSE MeanOf([i \in 1..Len(agent_metrics) |->
                    RatInt(agent_metrics[i].response_time_ms)])

\* Lines 439-445
_calculate_average_quality_score(agent_metrics) ==
    IF agent_metrics = <<>> THEN RatInt(0)
    ELSE MeanOf([i \in 1..Len(agent_metrics) |->
                    Hundredths(agent_metrics[i].quality_score)])

RECURSIVE InsertByQuality(_, _)
InsertByQuality(sorted, e) ==
    IF sorted = <<>> THEN <<e>>
    ELSE IF e.quality_score > Head(sorted).quality_score THEN <<e>> \o sorted
    ELSE <<Head(sorted)>> \o InsertByQuality(Tail(sorted), e)

\* sorted(..., key=quality_score, reverse=True): equal scores keep their
\* order.
RECURSIVE SortedByQuality(_)
SortedByQuality(agent_metrics) ==
    IF agent_metrics = <<>> THEN <<>>
    ELSE InsertByQuality(SortedByQuality(Tail(agent_metrics)),
                         Head(agent_metrics))

\* Lines 447-462
_get_top_performing_agents(agent_metrics, count) ==
    LET sorted_agents == SortedByQuality(agent_metrics)
        top == SubSeq(sorted_agents, 1,
                      IF Len(sorted_agents) < count THEN Len(sorted_agents)
                      ELSE count)
    IN  [i \in 1..Len(top) |->
            [agent_id |-> top[i].agent_id,
             quality_score |-> top[i].quality_score,
             response_time_ms |-> top[i].response_time_ms]]

\* The values of a list of score dicts, over a fixed order of the names.
RECURSIVE ScoreValues(_)
ScoreValues(m) ==
    IF DOMAIN m = {} THEN <<>>
    ELSE LET name == CHOOSE k \in DOMAIN m : TRUE
         IN  <<Hundredths(m[name])>>
                 \o ScoreValues([k \in DOMAIN m \ {name} |-> m[k]])

RECURSIVE AllScores(_)
AllScores(design_craft_metrics) ==
    IF design_craft_metrics = <<>> THEN <<>>
    ELSE ScoreValues(Head(design_craft_metrics))
             \o AllScores(Tail(design_craft_metrics))

\* Lines 464-473
_calculate_average_design_craft(design_craft_metrics) ==
    LET all_scores == AllScores(design_craft_metrics)
    IN  IF all_scores = <<>> THEN RatInt(0) ELSE MeanOf(all_scores)

\* Lines 388-429
generate_dashboard_report(m) ==
    IF m.system_health_history = <<>>
    THEN [error |-> "No monitoring data available"]
    ELSE LET history == m.system_health_history
             latest_health == history[Len(history)]
             health_trend ==
                 IF Len(history) >= 2
                 THEN RatSub(latest_health.overall_health_score,
                             history[Len(history) - 1].overall_health_score)
                 ELSE RatInt(0)
         IN  [system_overview |->
                  [overall_health_score |-> latest_health.overall_health_score,
                   health_trend |-> health_trend,
                   cpu_usage |-> latest_health.cpu_usage,
                   memory_usage |-> latest_health.memory_usage,
                   disk_usage |-> latest_health.disk_usage],
              agent_performance |->
                  [total_agents |-> Len(m.agent_metrics),
                   average_response_time |->
                       _calculate_average_response_time(m.agent_metrics),
                   average_quality_score |->
                       _calculate_average_quality_score(m.agent_metrics),
                   top_performing_agents |->
                       _get_top_performing_agents(m.agent_metrics, 3)],
              v11_enhancements |->
                  [execution_modes_used |->
                       Cardinality(DOMAIN m.execution_mode_metrics),
                   personality_overlays_used |->
                       Cardinality(DOMAIN m.personality_overlay_metrics),
                   creative_tensions_analyzed |->
                       Cardinality(DOMAIN m.creative_tension_metrics),
                   design_craft_average |->
                       _calculate_average_design_craft(m.design_craft_metrics)],
              trust_and_bias |->
                  [trust_calibration_quality |->
                       latest_health.trust_calibration_quality,
                   bias_detection_accuracy |->
                       latest_health.bias_detection_accuracy],
              recent_alerts |-> LastOf(m.monitoring_data.alerts, 5),
              optimization_suggestions |->
                  LastOf(m.monitoring_data.improvements_suggested, 3)]

\* One more call or loop iteration on the monitor.
MonitorCall(name) ==
    /\ monitor.pc = "ready"
    /\ monitor.calls < MaxMonitorCalls

Called(m, name) ==
    [m EXCEPT !.calls = @ + 1, !.called = @ \cup {name}]

UpdateAgentMetrics ==
    /\ MonitorCall("update_agent_metrics")
    /\ \E report \in AgentReports :
        monitor' = [Called(monitor, "update_agent_metrics") EXCEPT
                      !.agent_metrics = update_agent_metrics(@, report)]
    /\ UNCHANGED <<core_vars, summary, deployer, recorder>>

\* Lines 247-269.  design_craft_metrics is keyed by the time of the call;
\* the calls are taken to be made at different times.
UpdateV11Metrics ==
    /\ MonitorCall("update_v11_metrics")
    /\ \E report \in V11Reports :
        monitor' = [Called(monitor, "update_v11_metrics") EXCEPT
            !.execution_mode_metrics =
                CountUse(@, report.execution_mode, "avg_performance"),
            !.personality_overlay_metrics =
                IF report.personality_overlay # None
                THEN CountUse(@, report.personality_overlay,
                              "avg_effectiveness")
                ELSE @,
            !.creative_tension_metrics =
                IF report.creative_tension # None
                THEN CountUse(@, report.creative_tension, "avg_balance")
                ELSE @,
            !.design_craft_metrics =
                IF report.design_craft_scores # <<>>
                THEN Append(@, report.design_craft_scores)
                ELSE @]
    /\ UNCHANGED <<core_vars, summary, deployer, recorder>>

\* Lines 130-137
StartMonitoring ==
    /\ MonitorCall("start_monitoring")
    /\ monitor' = [Called(monitor, "start_monitoring") EXCEPT
                      !.monitoring_active = TRUE]
    /\ UNCHANGED <<core_vars, summary, deployer, recorder>>

\* Lines 139-144
StopMonitoring ==
    /\ MonitorCall("stop_monitoring")
    /\ monitor' = [Called(monitor, "stop_monitoring") EXCEPT
                      !.monitoring_active = FALSE]
    /\ UNCHANGED <<core_vars, summary, deployer, recorder>>

\* Lines 148-173: one iteration of the loop of the monitoring thread, the
\* save of line 170 included.
MonitoringLoop ==
    /\ MonitorCall("_monitoring_loop")
    /\ monitor.monitoring_active
    /\ \E cpu_usage \in CpuReadings, memory_usage \in MemoryReadings,
          disk_usage \in DiskReadings :
        LET system_health ==
                collect_system_health(monitor.agent_metrics, cpu_usage,
                                      memory_usage, disk_usage)
            alerts == check_for_alerts(system_health, monitor.agent_metrics)
            suggestions ==
                generate_optimization_suggestions(
                    system_health, monitor.agent_metrics,
                    monitor.execution_mode_metrics)
            data ==
                [alerts |-> monitor.monitoring_data.alerts \o alerts,
                 improvements_suggested |->
                     monitor.monitoring_data.improvements_suggested
                         \o suggestions,
                 system_health_snapshots |->
                     Append(monitor.monitoring_data.system_health_snapshots,
                            system_health)]
        IN  monitor' = [Called(monitor, "_monitoring_loop") EXCEPT
                          !.system_health_history = Append(@, system_health),
                          !.monitoring_data = data,
                          !.data_file = data]
    /\ UNCHANGED <<core_vars, summary, deployer, recorder>>

\* Lines 388-429.  after is history: the calls made before this one.
GenerateDashboardReport ==
    /\ MonitorCall("generate_dashboard_report")
    /\ monitor' = [Called(monitor, "generate_dashboard_report") EXCEPT
                      !.report = [value |-> generate_dashboard_report(monitor),
                                  after |-> monitor.called]]
    /\ UNCHANGED <<core_vars, summary, deployer, recorder>>

NoData == [alerts |-> <<>>, improvements_suggested |-> <<>>,
           system_health_snapshots |-> <<>>]

\* Lines 46-67, in a workspace that holds no monitor files.
InitMonitor ==
    /\ InitLedger
    /\ InitChainIdle
    /\ config = <<>>
    /\ threads = <<>>
    /\ flow_call = NoCall
    /\ runs = NoRuns
    /\ trail_heap = NoHeap
    /\ summary = NoSummary
    /\ monitor = [pc |-> "ready", calls |-> 0, called |-> {},
                  agent_metrics |-> <<>>, system_health_history |-> <<>>,
                  execution_mode_metrics |-> <<>>,
                  personality_overlay_metrics |-> <<>>,
                  creative_tension_metrics |-> <<>>,
                  design_craft_metrics |-> <<>>,
                  monitoring_active |-> FALSE,
                  monitoring_data |-> NoData, data_file |-> <<>>,
                  report |-> <<>>]
    /\ deployer = NoDeployer
    /\ recorder = NoRecorder

NextMonitor ==
    \/ UpdateAgentMetrics
    \/ UpdateV11Metrics
    \/ StartMonitoring
    \/ StopMonitoring
    \/ MonitoringLoop
    \/ GenerateDashboardReport

SpecMonitor == InitMonitor /\ [][NextMonitor]_vars

---------------------------------------------------------------------------
(* A caller of record_chain_execution (memory_registry.py:65-78)           *)

\* How many executions are recorded beyond HistoryCap.
MaxOverflow == 2

\* The pipelines whose executions are recorded.
HistoryConfigs == {c \in Configs : Len(c) <= 1}

\* The output of the n-th recorded execution.
Execution(n) == <<"execution", n>>

\* memory_registry.py:65-78, called as agent_chain.py:113-114 calls it, the
\* save of line 78 included.
RecordChainExecution ==
    /\ recorder.calls < HistoryCap + MaxOverflow
    /\ chain_history' =
          record_chain_execution(chain_history, recorder.chain_config,
                                 recorder.metrics,
                                 Execution(recorder.calls + 1))
    /\ storage' = Saved(agent_patterns, chain_history')
    /\ ret' = [op |-> "record_chain_execution", agent |-> None,
               value |-> None]
    /\ recorder' = [recorder EXCEPT !.calls = @ + 1]
    /\ UNCHANGED <<agent_patterns, usage_log, config, adaptive, pc, step_idx,
                   chain_output, metrics, reasoning_trail, result, last_step,
                   run_input, fault, threads, flow_call, runs, trail_heap,
                   summary, monitor, deployer>>

\* A registry loaded from a file that holds one recorded pattern use and no
\* chain history (memory_registry.py:12-27), and a caller that records the
\* executions of one pipeline.  loaded is history: the ledger as loaded.
InitHistory ==
    /\ \E agent \in Agents, pattern \in LedgerPatterns,
          m \in [{"overall"} -> Scores] :
        /\ agent_patterns = record_pattern_use(<<>>, agent, pattern, m)
        /\ usage_log = Log(EmptyLog, agent, pattern, m)
    /\ chain_history = <<>>
    /\ storage = Saved(agent_patterns, chain_history)
    /\ ret = [op |-> "none", agent |-> None, value |-> None]
    /\ InitChainIdle
    /\ config = <<>>
    /\ threads = <<>>
    /\ flow_call = NoCall
    /\ runs = NoRuns
    /\ trail_heap = NoHeap
    /\ summary = NoSummary
    /\ monitor = NoMonitor
    /\ deployer = NoDeployer
    /\ \E chain_config \in HistoryConfigs :
        recorder = [calls |-> 0, chain_config |-> chain_config,
                    metrics |-> [overall |-> 9], loaded |-> agent_patterns]

NextHistory == RecordChainExecution

SpecHistory == InitHistory /\ [][NextHistory]_vars

---------------------------------------------------------------------------
(* FusionV11Deployer (src/deploy_fusion_v11_to_projects.py)                *)
(* A path is the sequence of its components below the root.                *)

\* The longest projects list of one batch_deploy call.
MaxProjects == 2

\* The directory the process starts in, and the directories that exist.
StartDirectory == <<"home">>

Directories == {<<"home">>, <<"home", "work">>, <<"srv">>}

\* Entries of a projects list: new projects with a relative target
\* directory, with an absolute one and with none, and an existing project
\* given by a relative path.
ProjectSpecs ==
    {[name |-> "alpha",
      target_directory |-> [absolute |-> FALSE, parts |-> <<"work">>]],
     [name |-> "beta",
      target_directory |-> [absolute |-> TRUE, parts |-> <<"srv">>]],
     [name |-> "gamma"],
     [name |-> "work",
      existing_path |-> [absolute |-> FALSE, parts |-> <<"work">>]]}

ProjectLists == SeqsUpTo(ProjectSpecs, MaxProjects)

\* What the calls into fusion_v11_foundation (lines 52-64, 121-132) do.
FoundationOutcomes == {"returns", "raises"}

\* A path as the process resolves it in the directory cwd.
ResolvePath(cwd, path) ==
    IF path.absolute THEN path.parts ELSE cwd \o path.parts

\* Lines 37-90.  The result carries, as history, the directory the project
\* was created in.
deploy_to_new_project(cwd, deployments_log, project, outcome) ==
    LET targeted == "target_directory" \in DOMAIN project
        original_cwd == cwd
        entered ==
            IF targeted THEN ResolvePath(cwd, project.target_directory)
            ELSE cwd
        deployment_result ==
            [project_name |-> project.name, status |-> "success",
             deployment_type |-> "new_project", created_in |-> entered]
    IN  IF targeted /\ entered \notin Directories
        THEN [cwd |-> cwd, deployments_log |-> deployments_log,
              result |-> [project_name |-> project.name, status |-> "failed",
                          error |-> "FileNotFoundError"]]
        ELSE IF outcome = "raises"
        THEN [cwd |-> entered, deployments_log |-> deployments_log,
              result |-> [project_name |-> project.name, status |-> "failed",
                          error |-> "Exception"]]
        ELSE [cwd |-> IF targeted THEN original_cwd ELSE entered,
              deployments_log |-> Append(deployments_log, deployment_result),
              result |-> deployment_result]

\* Lines 92-200: no change of directory; the project path is resolved in
\* the working directory.
deploy_to_existing_project(cwd, deployments_log, project, outcome) ==
    LET project_path == ResolvePath(cwd, project.existing_path)
        project_name == project.existing_path.parts[
                            Len(project.existing_path.parts)]
        deployment_result ==
            [project_name |-> project_name, status |-> "success",
             deployment_type |-> "existing_project",
             project_path |-> project_path]
    IN  IF project_path \notin Directories
        THEN [cwd |-> cwd, deployments_log |-> deployments_log,
              result |-> [project_name |-> project_name, status |-> "failed",
                          error |-> "ValueError"]]
        ELSE IF outcome = "raises"
        THEN [cwd |-> cwd, deployments_log |-> deployments_log,
              result |-> [project_name |-> project_name, status |-> "failed",
                          error |-> "Exception"]]
        ELSE [cwd |-> cwd,
              deployments_log |-> Append(deployments_log, deployment_result),
              result |-> deployment_result]

\* Lines 202-208
BatchDeploy ==
    /\ deployer.pc = "idle"
    /\ deployer' = [deployer EXCEPT !.pc = "running", !.results = <<>>]
    /\ UNCHANGED <<core_vars, summary, monitor, recorder>>

\* Lines 210-225: one iteration of the loop.  calls is history: for every
\* deploy_to_new_project call, the working directory at the call and at the
\* return.
DeployProject ==
    /\ deployer.pc = "running"
    /\ Len(deployer.results) < Len(deployer.projects_config)
    /\ \E outcome \in FoundationOutcomes :
        LET project == deployer.projects_config[Len(deployer.results) + 1]
            existing == "existing_path" \in DOMAIN project
            done ==
                IF existing
                THEN deploy_to_existing_project(
                         deployer.cwd, deployer.deployments_log, project,
                         outcome)
                ELSE deploy_to_new_project(
                         deployer.cwd, deployer.deployments_log, project,
                         outcome)
        IN  deployer' = [deployer EXCEPT
                !.cwd = done.cwd,
                !.deployments_log = done.deployments_log,
                !.results = Append(@, done.result),
                !.calls =
                    IF existing THEN @
                    ELSE Append(@, [project |-> project,
                                    status |-> done.result.status,
                                    cwd_at_call |-> deployer.cwd,
                                    cwd_at_return |-> done.cwd])]
    /\ UNCHANGED <<core_vars, summary, monitor, recorder>>

\* Lines 227-240
BatchReturn ==
    /\ deployer.pc = "running"
    /\ Len(deployer.results) = Len(deployer.projects_config)
    /\ deployer' = [deployer EXCEPT !.pc = "returned",
                                    !.returned = deployer.results]
    /\ UNCHANGED <<core_vars, summary, monitor, recorder>>

\* Lines 33-35, and a batch_deploy call about to be made.
InitDeploy ==
    /\ InitLedger
    /\ InitChainIdle
    /\ config = <<>>
    /\ threads = <<>>
    /\ flow_call = NoCall
    /\ runs = NoRuns
    /\ trail_heap = NoHeap
    /\ summary = NoSummary
    /\ monitor = NoMonitor
    /\ \E projects_config \in ProjectLists :
        deployer = [pc |-> "idle", cwd |-> StartDirectory,
                    projects_config |-> projects_config, results |-> <<>>,
                    deployments_log |-> <<>>, calls |-> <<>>,
                    returned |-> <<>>]
    /\ recorder = NoRecorder

NextDeploy == BatchDeploy \/ DeployProject \/ BatchReturn

SpecDeploy == InitDeploy /\ [][NextDeploy]_vars

---------------------------------------------------------------------------
(* Properties of one step of AgentChain.execute, under Spec *)

\* The current execute has completed at least one loop iteration.
StepDone == Len(last_step.tried) > 0

\* The latest iteration called _execute_step a second time.
TriedFallback == Len(last_step.tried) > 1

SomeBelow(m, threshold) == \E k \in DOMAIN m : m[k] < threshold

AllMeet(m, threshold) == \A k \in DOMAIN m : m[k] >= threshold

GraphHas(pattern) ==
    pattern \in {"StepwiseInsightSynthesis", "RoleDirective",
                 "PatternCritiqueThenRewrite"}

UsesOf(ap, agent, pattern) ==
    IF HasEntry(ap, agent, pattern) THEN Entry(ap, agent, pattern).uses ELSE 0

MinValue(m) ==
    CHOOSE v \in {m[k] : k \in DOMAIN m} : \A k \in DOMAIN m : v <= m[k]

\* C1 as stated: a fallback attempt is made exactly when some primary metric
\* is below the step's threshold and the fallback graph has an entry for the
\* effective pattern, whatever the adaptive flag.
C1_Original ==
    StepDone =>
        (TriedFallback <=>
            /\ SomeBelow(last_step.primary_metrics, last_step.threshold)
            /\ GraphHas(last_step.primary_pattern))

\* C1 as amended: a fallback attempt is made exactly when the run is
\* adaptive, some primary metric is below the step's threshold and the
\* fallback graph has an entry for the effective pattern; a primary attempt
\* whose metrics all meet the threshold never triggers one.
C1_FallbackDecision ==
    StepDone =>
        /\ TriedFallback <=>
              /\ last_step.adaptive
              /\ SomeBelow(last_step.primary_metrics, last_step.threshold)
              /\ GraphHas(last_step.primary_pattern)
        /\ AllMeet(last_step.primary_metrics, last_step.threshold) => ~TriedFallback

\* An adaptive step with its own threshold of 0.9 retried a primary attempt
\* that scored 0.7 overall.
C1_Witness ==
    /\ StepDone
    /\ TriedFallback
    /\ last_step.threshold = 9
    /\ last_step.primary_metrics["overall"] = 7

\* C2: the step's output, metrics and pattern are the fallback attempt's
\* exactly when a fallback attempt was made and all its values meet the
\* step's threshold; otherwise they are the primary attempt's.
C2_StepResult ==
    StepDone =>
        LET entry == reasoning_trail[Len(reasoning_trail)]
            took_fallback ==
                /\ TriedFallback
                /\ AllMeet(last_step.fallback_metrics[1], last_step.threshold)
        IN  /\ Len(reasoning_trail) > 0
            /\ IF took_fallback
               THEN /\ entry.pattern = last_step.tried[2]
                    /\ entry.metrics = last_step.fallback_metrics[1]
                    /\ chain_output = _execute_step(last_step.agent, last_step.tried[2],
                                                     last_step.input)
               ELSE /\ entry.pattern = last_step.primary_pattern
                    /\ entry.metrics = last_step.primary_metrics
                    /\ chain_output = last_step.primary_output

\* A fallback attempt that met 0.7 but not the step's threshold of 0.9 was
\* discarded: the primary result stands although it is below threshold.
C2_Witness ==
    /\ StepDone
    /\ TriedFallback
    /\ last_step.threshold = 9
    /\ AllMeet(last_step.fallback_metrics[1], 7)
    /\ reasoning_trail[Len(reasoning_trail)].pattern = last_step.primary_pattern
    /\ chain_output = last_step.primary_output

C4_OneFallback ==
    StepDone =>
        /\ Len(last_step.tried) <= 2
        /\ last_step.tried[1] = last_step.primary_pattern
        /\ TriedFallback =>
              last_step.tried[2] =
                  _get_fallback_pattern(last_step.agent, last_step.primary_pattern)

\* A fallback that missed the threshold, and whose own fallback leads back
\* into the cycle of the fallback graph, ended the step.
C4_Witness ==
    /\ StepDone
    /\ TriedFallback
    /\ ~last_step.adopted_fallback
    /\ GraphHas(last_step.tried[2])
    /\ Len(last_step.tried) = 2

\* C5 as stated: every fallback attempt made adds one to the uses of
\* (agent, fallback pattern), adopted or not.
C5_Original ==
    (StepDone /\ TriedFallback) =>
        UsesOf(agent_patterns, last_step.agent, last_step.tried[2])
            = UsesOf(last_step.ledger_before, last_step.agent, last_step.tried[2]) + 1

\* C5 as amended: a fallback attempt adds one to the uses of (agent, fallback
\* pattern) when its result is adopted and leaves the ledger entry of that
\* key as it was when its result is discarded.
C5_FallbackRecordedIfAdopted ==
    (StepDone /\ TriedFallback) =>
        LET a == last_step.agent
            f == last_step.tried[2]
        IN  IF last_step.adopted_fallback
            THEN UsesOf(agent_patterns, a, f) = UsesOf(last_step.ledger_before, a, f) + 1
            ELSE /\ UsesOf(agent_patterns, a, f) = UsesOf(last_step.ledger_before, a, f)
                 /\ HasEntry(agent_patterns, a, f) =>
                       /\ HasEntry(last_step.ledger_before, a, f)
                       /\ Entry(agent_patterns, a, f) = Entry(last_step.ledger_before, a, f)

\* A fallback attempt was made and discarded, and the ledger has no entry
\* for the fallback key.
C5_Witness ==
    /\ StepDone
    /\ TriedFallback
    /\ ~last_step.adopted_fallback
    /\ ~HasEntry(agent_patterns, last_step.agent, last_step.tried[2])

---------------------------------------------------------------------------
(* Properties of the registry, under SpecLedger *)

Keys == Agents \X Patterns

\* C6: a ledger entry for (agent, pattern) exists exactly when
\* record_pattern_use has been called for that key, and its uses is the
\* number of those calls (which never decreases, so no entry is deleted and
\* no uses is lowered).
C6_UsesCountsCalls ==
    \A k \in Keys :
        /\ HasEntry(agent_patterns, k[1], k[2]) <=> usage_log[k].calls > 0
        /\ HasEntry(agent_patterns, k[1], k[2]) =>
              Entry(agent_patterns, k[1], k[2]).uses = usage_log[k].calls

\* Two keys of one agent and a key of the other agent are in the ledger, one
\* of them recorded twice.
C6_Witness ==
    /\ \E k \in Keys : usage_log[k].calls = 2
                        /\ Entry(agent_patterns, k[1], k[2]).uses = 2
    /\ \E a \in Agents : a \in DOMAIN agent_patterns /\ Len(agent_patterns[a]) = 2
    /\ DOMAIN agent_patterns # Agents

\* C8: when each of the N calls for a key carried metric m, avg_metrics[m]
\* is the sum of the N recorded values divided by N.
C8_AvgIsMean ==
    \A k \in Keys : \A m \in MetricNames :
        (usage_log[k].calls > 0 /\ usage_log[k].carried[m] = usage_log[k].calls) =>
            /\ m \in DOMAIN Entry(agent_patterns, k[1], k[2]).avg_metrics
            /\ Entry(agent_patterns, k[1], k[2]).avg_metrics[m]
                 = Norm(usage_log[k].sum[m], usage_log[k].calls)

\* Three recordings on one key, each with the auxiliary metric, whose mean is
\* not a whole number of tenths.
C8_Witness ==
    \E k \in Keys :
        /\ usage_log[k].calls = 3
        /\ usage_log[k].carried["clarity_score"] = 3
        /\ Entry(agent_patterns, k[1], k[2]).avg_metrics["clarity_score"] = <<17, 3>>
        /\ Entry(agent_patterns, k[1], k[2]).avg_metrics["overall"][2] = 3

\* C9: success_rate is the number of calls whose values were all >= 0.7
\* divided by uses, and lies in [0, 1].
C9_SuccessRate ==
    \A k \in Keys :
        HasEntry(agent_patterns, k[1], k[2]) =>
            LET e == Entry(agent_patterns, k[1], k[2])
            IN  /\ e.success_rate = Norm(usage_log[k].successes, e.uses)
                /\ RatLeq(<<0, 1>>, e.success_rate)
                /\ RatLeq(e.success_rate, <<1, 1>>)

\* An entry used three times, two of them successes, one of which scored
\* exactly 0.7.
C9_Witness ==
    \E k \in Keys :
        /\ HasEntry(agent_patterns, k[1], k[2])
        /\ Entry(agent_patterns, k[1], k[2]).uses = 3
        /\ Entry(agent_patterns, k[1], k[2]).success_rate = <<2, 3>>
        /\ usage_log[k].sum["overall"] = 7 + 9 + 4

\* e's (success_rate, uses) is lexicographically at most b's.
LexLeq(e, b) ==
    \/ RatLess(e.success_rate, b.success_rate)
    \/ e.success_rate = b.success_rate /\ e.uses <= b.uses

RecordedFor(agent) ==
    IF agent \in DOMAIN agent_patterns
    THEN {agent_patterns[agent][i].pattern : i \in 1..Len(agent_patterns[agent])}
    ELSE {}

\* The answer of the latest get_best_pattern call is right for the ledger.
BestAnswerRight ==
    ret.op = "get_best_pattern" =>
        IF RecordedFor(ret.agent) = {}
        THEN ret.value = None
        ELSE /\ ret.value \in RecordedFor(ret.agent)
             /\ \A p \in RecordedFor(ret.agent) :
                   LexLeq(Entry(agent_patterns, ret.agent, p),
                          Entry(agent_patterns, ret.agent, ret.value))

\* C10: every get_best_pattern call leaves the ledger as it was and returns
\* None for an agent without recorded patterns, otherwise a pattern recorded
\* for that agent whose (success_rate, uses) is lexicographically maximal.
C10_BestPattern ==
    [][ret'.op = "get_best_pattern" =>
          /\ agent_patterns' = agent_patterns
          /\ chain_history' = chain_history
          /\ storage' = storage
          /\ BestAnswerRight']_vars

\* The asked agent has two patterns and the answer is the second one
\* inserted; the other agent holds the first pattern with a better record
\* than the answer's rival has for the asked agent.
C10_Witness ==
    /\ ret.op = "get_best_pattern"
    /\ Cardinality(RecordedFor(ret.agent)) = 2
    /\ ret.value = agent_patterns[ret.agent][2].pattern
    /\ \E a \in Agents \ {ret.agent} :
          /\ HasEntry(agent_patterns, a, agent_patterns[ret.agent][1].pattern)
          /\ Entry(agent_patterns, a, agent_patterns[ret.agent][1].pattern).success_rate
               = <<1, 1>>

\* The ledger with one agent's entries put in another order.
Reordered(ap, agent, f) ==
    [ap EXCEPT ![agent] = [i \in 1..Len(ap[agent]) |-> ap[agent][f[i]]]]

\* C11 as the specification states it: the answer of get_best_pattern is
\* decided by the entries alone (ties on success_rate and uses go by pattern
\* id), so the same entries recorded in any other order give the same answer.
C11_Original ==
    (ret.op = "get_best_pattern" /\ ret.agent \in DOMAIN agent_patterns) =>
        \A f \in Permutations(1..Len(agent_patterns[ret.agent])) :
            get_best_pattern(Reordered(agent_patterns, ret.agent, f), ret.agent)
                = ret.value

\* C11: among the entries of the asked agent, the answer of get_best_pattern
\* is the first recorded one whose (success_rate, uses) is maximal: every
\* entry recorded before it is strictly worse, every later one at most equal.
C11_FirstRecordedWins ==
    (ret.op = "get_best_pattern" /\ RecordedFor(ret.agent) # {}) =>
        LET entries == agent_patterns[ret.agent]
            best == IndexOf(entries, ret.value)
        IN  \A j \in 1..Len(entries) :
                /\ j < best => ~LexLeq(entries[best], entries[j])
                /\ j > best => LexLeq(entries[j], entries[best])

\* Two patterns tied on success_rate and uses; the answer is the one recorded
\* first, and the same two entries in the other order give the other answer.
C11_Witness ==
    /\ ret.op = "get_best_pattern"
    /\ ret.agent \in DOMAIN agent_patterns
    /\ Len(agent_patterns[ret.agent]) = 2
    /\ agent_patterns[ret.agent][1].success_rate
         = agent_patterns[ret.agent][2].success_rate
    /\ agent_patterns[ret.agent][1].uses = agent_patterns[ret.agent][2].uses
    /\ ret.value = agent_patterns[ret.agent][1].pattern
    /\ ret.value = "StepwiseInsightSynthesis"
    /\ get_best_pattern(Reordered(agent_patterns, ret.agent, <<2, 1>>), ret.agent)
         = "RoleDirective"

---------------------------------------------------------------------------
(* Properties of a whole run of AgentChain.execute *)

\* What get_best_pattern answered for the agent of the latest iteration.
BestBefore == get_best_pattern(last_step.ledger_before, last_step.agent)

\* The latest iteration of an adaptive run found a best pattern other than
\* the configured one.
SubstitutionDue ==
    /\ StepDone
    /\ last_step.adaptive
    /\ BestBefore # None
    /\ BestBefore # last_step.configured

\* C12: an adaptive step whose agent has a best pattern in the ledger that
\* differs from the configured pattern makes its primary attempt with that
\* best pattern, and no step of execute changes the configuration.
C12_SubstitutionLeavesConfig ==
    [][/\ config' = config
       /\ SubstitutionDue' =>
             /\ last_step'.primary_pattern = BestBefore'
             /\ last_step'.tried[1] = BestBefore']_vars

\* A finished adaptive run whose last step ran under the ledger's best
\* pattern while the configuration still names the configured one.
C12_Witness ==
    /\ pc = "idle"
    /\ SubstitutionDue
    /\ last_step.primary_pattern # last_step.configured
    /\ config[Len(config)].pattern = last_step.configured
    /\ result.reasoning_trail[Len(config)].pattern # config[Len(config)].pattern

\* An execute has returned.
Returned == pc = "idle" /\ Len(chain_history) > 0

\* The text that results from handing input_text through the first n
\* entries of a trail, each entry's agent working under the entry's pattern.
RECURSIVE Threaded(_, _, _)
Threaded(trail, n, input_text) ==
    IF n = 0 THEN input_text
    ELSE _execute_step(trail[n].agent, trail[n].pattern,
                       Threaded(trail, n - 1, input_text))

\* C14: the first step works on the input of execute and each later step on
\* the adopted output of the step before it; every attempt of one step is
\* given that same input; the output returned is the adopted output of the
\* last step.
C14_OutputThreading ==
    /\ pc = "running" =>
          chain_output = Threaded(reasoning_trail, Len(reasoning_trail), run_input)
    /\ StepDone =>
          /\ last_step.input
               = Threaded(reasoning_trail, Len(reasoning_trail) - 1, run_input)
          /\ \A i \in 1..Len(last_step.attempt_inputs) :
                last_step.attempt_inputs[i] = last_step.input
          /\ last_step.output
               = _execute_step(last_step.agent, last_step.pattern, last_step.input)
    /\ Returned =>
          /\ result.output = chain_output
          /\ result.output
               = Threaded(result.reasoning_trail, Len(config), run_input)

\* A returned run of two steps, the second of which adopted its fallback.
C14_Witness ==
    /\ Returned
    /\ Len(config) = 2
    /\ Len(last_step.attempt_inputs) = 2
    /\ last_step.adopted_fallback
    /\ Len(last_step.input) = Len(run_input) + 2
    /\ Len(result.output) = Len(run_input) + 4

\* The trail numbers its entries from 1 and names the agents of the
\* configured steps in their order.
TrailInOrder ==
    /\ Len(reasoning_trail) <= Len(config)
    /\ \A i \in 1..Len(reasoning_trail) :
          /\ reasoning_trail[i].step = i
          /\ reasoning_trail[i].agent = config[i].agent

\* C15: at every point of a run the i-th trail entry has step index i and
\* the agent of the i-th configured step, the newest entry names the pattern
\* the step adopted, and a step of the run only appends: the entries there
\* were stay as they were.
C15_TrailAppendOnly ==
    [][/\ TrailInOrder'
       /\ StepDone' =>
             reasoning_trail'[Len(reasoning_trail')].pattern = last_step'.pattern
       /\ pc = "running" =>
             /\ Len(reasoning_trail') >= Len(reasoning_trail)
             /\ SubSeq(reasoning_trail', 1, Len(reasoning_trail))
                  = reasoning_trail]_vars

\* Two entries, each naming a pattern other than the configured one; the
\* second step adopted its fallback.
C15_Witness ==
    /\ pc = "running"
    /\ Len(reasoning_trail) = 2
    /\ reasoning_trail[1].pattern # config[1].pattern
    /\ reasoning_trail[2].pattern # config[2].pattern
    /\ last_step.adopted_fallback

\* The metric names the entries of a trail report.
ReportedNames(trail) == UNION {DOMAIN trail[i].metrics : i \in 1..Len(trail)}

\* The value of the last entry of a trail that reports the name.
LastReported(trail, name) ==
    LET last == CHOOSE i \in 1..Len(trail) :
                    /\ name \in DOMAIN trail[i].metrics
                    /\ \A j \in (i + 1)..Len(trail) :
                          name \notin DOMAIN trail[j].metrics
    IN  trail[last].metrics[name]

\* C16 as the specification states it: the metrics execute returns hold
\* exactly the names the steps of this run reported, each with the value of
\* the last step that reported it.
C16_MetricsOfThisRun ==
    Returned =>
        /\ DOMAIN result.metrics = ReportedNames(result.reasoning_trail)
        /\ \A name \in DOMAIN result.metrics :
              result.metrics[name] = LastReported(result.reasoning_trail, name)

\* Whether a configuration is one the specification wants rejected.
Malformed(chain_config) ==
    \/ chain_config = <<>>
    \/ \E i \in 1..Len(chain_config) :
          chain_config[i].agent = "" \/ chain_config[i].pattern = ""

\* C20 as the specification states it: for a configuration with no steps,
\* or with a step whose agent or pattern id is empty, no step is executed,
\* the ledger is left alone and no chain result is returned.
C20_MalformedRejected ==
    Malformed(config) =>
        /\ reasoning_trail = <<>>
        /\ agent_patterns = <<>>
        /\ chain_history = <<>>
        /\ result = NoResult

---------------------------------------------------------------------------
(* Exceptions inside AgentChain.execute, under SpecFaults and SpecSaveFaults *)

\* C17: when _execute_step raises in step k, execute is left at step k: the
\* loop does not go on (no fallback for the faulting attempt, no later step,
\* no trail entry for step k), nothing is returned or added to the chain
\* history, and the ledger holds no recording for the faulting attempt (only
\* the primary attempt's, when it was the fallback attempt that raised).
C17_FaultEndsRun ==
    fault.kind = "executor" =>
        /\ pc = "failed"
        /\ step_idx = fault.step
        /\ Len(reasoning_trail) = fault.step - 1
        /\ ~ENABLED ExecuteStep
        /\ ~ENABLED FinishExecute
        /\ result = fault.result_before
        /\ chain_history = fault.history_before
        /\ UsesOf(agent_patterns, fault.agent, fault.pattern)
             = UsesOf(fault.ledger_before, fault.agent, fault.pattern)
        /\ TotalUses(agent_patterns)
             = TotalUses(fault.ledger_before) + fault.attempt - 1

\* The fallback attempt of the first of two steps raised, after the primary
\* attempt had been recorded.
C17_Witness ==
    /\ fault.kind = "executor"
    /\ fault.attempt = 2
    /\ fault.step < Len(config)
    /\ TotalUses(agent_patterns) = TotalUses(fault.ledger_before) + 1
    /\ UsesOf(agent_patterns, fault.agent, fault.pattern) = 0

\* C19 as the specification states it: when saving the ledger fails inside
\* record_pattern_use, the call returns normally, the entry keeps the update
\* made in memory, and the run goes on with its remaining steps.
C19_SaveFaultSwallowed ==
    fault.kind = "save" =>
        /\ UsesOf(agent_patterns, fault.agent, fault.pattern)
             = UsesOf(fault.ledger_before, fault.agent, fault.pattern) + 1
        /\ pc # "failed"

---------------------------------------------------------------------------
(* run_agent_chain, under SpecFlow *)

\* The call has ended, by return or by exception.
FlowEnded == flow_call.pc \in {"returned", "raised"}

\* C13 as the specification states it, for run_agent_chain: a call with n
\* configured steps (n > 0) ends only by returning, after all n steps, with
\* one result per step, whatever the scores were.
C13_EveryStepRuns ==
    (FlowEnded /\ Len(flow_call.flow) > 0) =>
        /\ flow_call.pc = "returned"
        /\ Len(flow_call.returned.chain_results) = Len(flow_call.flow)

\* C18 as the specification states it: a call in which some step scored
\* below its threshold does not raise; the step is retried once and the
\* call goes on to return a result for every step.
C18_ShortfallNeverRaises ==
    flow_call.shortfalls > 0 =>
        /\ flow_call.shortfalls <= Len(flow_call.results)
        /\ flow_call.pc # "raised"
        /\ FlowEnded => Len(flow_call.returned.chain_results) = Len(flow_call.flow)

\* The threshold the specification has a step judged against.
DeclaredThreshold(step_config, pipeline_default) ==
    IF "metrics_threshold" \in DOMAIN step_config
    THEN step_config.metrics_threshold
    ELSE pipeline_default

\* C21 as the specification states it: a step counts as short of its
\* threshold exactly when its overall score is below the step's own
\* metrics_threshold if the step gives one (0 included), below the call's
\* metrics_threshold otherwise.
C21_JudgedAgainstOwnThreshold ==
    flow_call.judged # <<>> =>
        flow_call.judged.shortfall
          = (flow_call.judged.metrics["overall"]
               < DeclaredThreshold(flow_call.judged.step,
                                   flow_call.metrics_threshold))

---------------------------------------------------------------------------
(* Concurrent runs on one AgentChain object, under SpecShared *)

\* C22 as the specification states it: whatever the interleaving, the trail
\* a run returned holds exactly the steps of that run, numbered 1..n in the
\* configured order, and the output it returned is what those steps make of
\* the run's own input.
C22_PrivateRunState ==
    \A t \in Threads :
        runs[t].pc = "done" =>
            /\ Len(ReturnedTrail(t)) = Len(config)
            /\ \A i \in 1..Len(ReturnedTrail(t)) :
                  /\ ReturnedTrail(t)[i].step = i
                  /\ ReturnedTrail(t)[i].agent = config[i].agent
            /\ runs[t].returned.output
                 = Threaded(ReturnedTrail(t), Len(config), SharedInput(t))

---------------------------------------------------------------------------
(* The aggregation of a metrics history, under SpecSummary *)

Applied(function) == summary.pc = "ready" /\ function \in summary.called

\* The overall scores of a history in tenths, 0 where an entry has none.
OverallTenths(metrics_history) ==
    [i \in 1..Len(metrics_history) |->
        GetOrZero(metrics_history[i], "overall")]

AllEqual(scores) ==
    \A i, j \in 1..Len(scores) : scores[i] = scores[j]

RECURSIVE DiffSum(_)
DiffSum(scores) ==
    IF Len(scores) < 2 THEN 0
    ELSE (scores[2] - scores[1]) + DiffSum(Tail(scores))

RECURSIVE IntSum(_)
IntSum(values) ==
    IF values = <<>> THEN 0 ELSE values[1] + IntSum(Tail(values))

\* The number x equals num / den.
RatIs(x, num, den) == x[1] * den = x[2] * num

\* C23: improvementTrend is 1.0 for a history of fewer than two entries and
\* otherwise 1.0 plus the mean of the consecutive differences of the overall
\* scores; so it is exactly 1.0 when all overall scores are equal, and the
\* history (0.6, 0.9) gives 1.3.
C23_ImprovementTrend ==
    Applied("calculate_improvement_trend") =>
        LET scores == OverallTenths(summary.metrics_history)
            differences == Len(scores) - 1
        IN  /\ Len(scores) < 2 => summary.improvement_trend = <<1, 1>>
            /\ Len(scores) >= 2 =>
                  RatIs(summary.improvement_trend,
                        10 * differences + DiffSum(scores), 10 * differences)
            /\ AllEqual(scores) => summary.improvement_trend = <<1, 1>>
            /\ scores = <<6, 9>> => summary.improvement_trend = <<13, 10>>

\* The trend of the history (0.6, 0.9) has been calculated.
C23_Witness ==
    /\ Applied("calculate_improvement_trend")
    /\ OverallTenths(summary.metrics_history) = <<6, 9>>
    /\ summary.improvement_trend = <<13, 10>>

\* The population variance of scores given in tenths is num / den with
\* these two.
VarianceNum(scores) ==
    Len(scores) * IntSum([i \in 1..Len(scores) |-> scores[i] * scores[i]])
        - IntSum(scores) * IntSum(scores)

VarianceDen(scores) == 100 * Len(scores) * Len(scores)

\* C24: consistencyScore is 1.0 minus the population variance of the overall
\* scores, the variance capped at 1.0 so that the result is never below 0; it
\* is exactly 1.0 when all overall scores are equal and lies in [0,1] for
\* every history of scores in [0,1].
C24_ConsistencyScore ==
    Applied("calculate_consistency_score") =>
        LET scores == OverallTenths(summary.metrics_history)
            num == VarianceNum(scores)
            den == VarianceDen(scores)
            capped == IF num > den THEN den ELSE num
        IN  /\ scores # <<>> =>
                  RatIs(summary.consistency_score, den - capped, den)
            /\ AllEqual(scores) => summary.consistency_score = <<1, 1>>
            /\ RatLeq(<<0, 1>>, summary.consistency_score)
            /\ RatLeq(summary.consistency_score, <<1, 1>>)

\* The consistency of a history whose overall scores differ has been
\* calculated, and it is below 1.0.
C24_Witness ==
    /\ Applied("calculate_consistency_score")
    /\ ~AllEqual(OverallTenths(summary.metrics_history))
    /\ RatLess(summary.consistency_score, <<1, 1>>)

\* C25: chainEffectiveness is 0.3 * improvementTrend + 0.3 * consistencyScore
\* + 0.4 * (overall of the last entry) for every history that is not empty,
\* and 0.0 for the empty history.
C25_ChainEffectiveness ==
    Applied("calculate_chain_effectiveness") =>
        LET h == summary.metrics_history
            t == calculate_improvement_trend(h)
            c == calculate_consistency_score(h)
            last == GetOrZero(h[Len(h)], "overall")
        IN  IF h = <<>>
            THEN summary.chain_effectiveness = <<0, 1>>
            ELSE summary.chain_effectiveness
                   = Norm(30 * t[1] * c[2] + 30 * c[1] * t[2]
                              + 4 * last * t[2] * c[2],
                          100 * t[2] * c[2])

\* The effectiveness of a history of two or more entries whose first and
\* last overall scores differ has been calculated.
C25_Witness ==
    /\ Applied("calculate_chain_effectiveness")
    /\ Len(summary.metrics_history) >= 2
    /\ LET scores == OverallTenths(summary.metrics_history)
       IN  scores[1] # scores[Len(scores)]
    /\ summary.chain_effectiveness # <<0, 1>>

Assessed == Applied("assess_chain_quality") /\ summary.metrics_history # <<>>

\* x > k / 10
Above(x, k) == 10 * x[1] > k * x[2]

\* C26: the rating depends on chainEffectiveness alone, with boundaries that
\* exclude the lower end: excellent iff > 0.9, good iff in (0.8, 0.9],
\* acceptable iff in (0.7, 0.8], needs_improvement iff <= 0.7; so exactly 0.8
\* rates acceptable, and a one-step chain scoring overall 0.9 rates
\* excellent.
C26_RatingBoundaries ==
    Assessed =>
        LET e == summary.chain_quality.score
            rating == summary.chain_quality.rating
        IN  /\ e = calculate_chain_effectiveness(summary.metrics_history)
            /\ rating = "excellent" <=> Above(e, 9)
            /\ rating = "good" <=> (Above(e, 8) /\ ~Above(e, 9))
            /\ rating = "acceptable" <=> (Above(e, 7) /\ ~Above(e, 8))
            /\ rating = "needs_improvement" <=> ~Above(e, 7)
            /\ e = <<4, 5>> => rating = "acceptable"
            /\ summary.metrics_history = <<[overall |-> 9]>> =>
                  rating = "excellent"

\* A chain whose effectiveness is exactly 0.8 has been assessed.
C26_Witness ==
    /\ Assessed
    /\ summary.chain_quality.score = <<4, 5>>
    /\ summary.chain_quality.rating = "acceptable"

\* The metric names of a history.
NamesIn(metrics_history) ==
    UNION {DOMAIN metrics_history[i] : i \in 1..Len(metrics_history)}

\* C27 as the specification states it: averageMetrics has one entry for each
\* metric name that appears in at least one history entry, a name that first
\* appears in a later step included, and its value is the arithmetic mean
\* over exactly the entries that contain the name.
C27_AverageOfEveryName ==
    (Applied("calculate_chain_metrics") /\ summary.metrics_history # <<>>) =>
        LET h == summary.metrics_history
            averages == summary.overall_metrics.average_metrics
        IN  /\ DOMAIN averages = NamesIn(h)
            /\ \A name \in DOMAIN averages :
                  LET carriers == {i \in 1..Len(h) : name \in DOMAIN h[i]}
                      total == IntSum([i \in 1..Len(h) |->
                                          GetOrZero(h[i], name)])
                  IN  RatIs(averages[name], total, 10 * Cardinality(carriers))

---------------------------------------------------------------------------
(* The dashboard report, under SpecMonitor *)

DashboardSections ==
    {"system_overview", "agent_performance", "v11_enhancements",
     "trust_and_bias"}

\* C28 as the specification states it: on a monitor on which
\* update_agent_metrics and update_v11_metrics have been called,
\* generate_dashboard_report returns a report that contains the sections
\* system_overview, agent_performance, v11_enhancements and trust_and_bias.
C28_ReportHasSections ==
    (/\ monitor.report # <<>>
     /\ {"update_agent_metrics", "update_v11_metrics"}
            \subseteq monitor.report.after) =>
        DashboardSections \subseteq DOMAIN monitor.report.value

---------------------------------------------------------------------------
(* The chain history, under SpecHistory *)

\* C29: after any sequence of record_chain_execution calls chain_history
\* holds at most 100 entries, and they are the most recently recorded
\* executions in call order, the oldest dropped first; recording a chain
\* execution leaves every agent_patterns ledger entry unchanged.
C29_HistoryKeepsLatest ==
    LET kept == Len(chain_history)
    IN  /\ kept <= 100
        /\ kept = IF recorder.calls < 100 THEN recorder.calls ELSE 100
        /\ \A i \in 1..kept :
              /\ chain_history[i].output_summary
                   = Execution(recorder.calls - kept + i)
              /\ chain_history[i].chain_config = recorder.chain_config
              /\ chain_history[i].metrics = recorder.metrics
        /\ agent_patterns = recorder.loaded
        /\ storage.agent_patterns = recorder.loaded

\* More than 100 executions have been recorded next to a ledger that holds
\* an entry: the first ones are gone.
C29_Witness ==
    /\ recorder.calls > HistoryCap
    /\ Len(chain_history) = HistoryCap
    /\ chain_history[1].output_summary
         = Execution(recorder.calls - HistoryCap + 1)
    /\ agent_patterns # <<>>

---------------------------------------------------------------------------
(* The working directory of the deployer, under SpecDeploy *)

\* C30 as the specification states it: deploy_to_new_project called with a
\* target directory returns with the process working directory equal to
\* what it was at the call, on the success path and on the failure path
\* alike, so that in batch_deploy a failed project does not change the
\* directory in which the following projects are deployed.
C30_WorkingDirectoryRestored ==
    \A i \in 1..Len(deployer.calls) :
        "target_directory" \in DOMAIN deployer.calls[i].project =>
            /\ deployer.calls[i].cwd_at_return = deployer.calls[i].cwd_at_call
            /\ deployer.calls[i].cwd_at_call = StartDirectory

---------------------------------------------------------------------------
(* Concurrent recordings, under SpecConcurrent *)

\* C7: once every concurrent record_pattern_use call has returned, each
\* entry's uses is the number of calls made for its key, and its avg_metrics
\* and success_rate are the mean and the success fraction of all of them.
C7_NoLostUpdate ==
    InFlight = {} =>
        \A k \in Keys :
            usage_log[k].calls > 0 =>
                /\ HasEntry(agent_patterns, k[1], k[2])
                /\ LET e == Entry(agent_patterns, k[1], k[2])
                   IN  /\ e.uses = usage_log[k].calls
                       /\ e.avg_metrics["overall"]
                            = Norm(usage_log[k].sum["overall"], usage_log[k].calls)
                       /\ e.success_rate
                            = Norm(usage_log[k].successes, usage_log[k].calls)

====
